---- MODULE Spec2Model ----
(***************************************************************************)
(* Model of the mascot bot's photo pipeline (src/server.mjs): the shared   *)
(* mascot cache, the message:photo handler and its two raced blend         *)
(* attempts.  Every request slot runs one handler invocation at a time;    *)
(* each action is one continuation of the handler between two awaits.      *)
(* Further down, under specifications of their own: the provider client    *)
(* (ClientSpec), the whole-image handlers of part_003 and part_005         *)
(* (GemSpec), the timed fetches (NetSpec), the placement and mask         *)
(* arithmetic (GeoSpec), normalizeToSquare (NormSpec), repeated runs of    *)
(* placeMascotDraft (RunsSpec) and the relay bots of part_000, part_002    *)
(* and part_004 (RelaySpec, JobsSpec).                                     *)
(***************************************************************************)
EXTENDS Integers, FiniteSets, Sequences, TLC

\* ---------------------------------------------------------------- bounds
\* Number of handler invocations that can be in progress together.
NumRequests == 2

Requests == 1..NumRequests

\* ------------------------------------------------------ program constants
ATTEMPT1_TIMEOUT_MS == 12000
BACKOFF_MS == 1200
ATTEMPT2_TIMEOUT_MS == 8000

\* ----------------------------------------------------------------- inputs
\* JavaScript null / "no value yet".
Null == "null"

\* What one read of the mascot source can return: the bytes behind
\* LOGO_CAT_URL are outside the process and may change between two reads.
MascotBytes == {"m1", "m2"}

\* What the provider can answer to one images.edits call.
Outcomes == {"image", "noimage", "quota", "error", "malformed"}

\* Response times (ms after the call was issued) of a provider answer that
\* is still awaited; an answer slower than the attempt's window is a
\* timeout followed by a late answer.
Latencies == {3000, 8000}

Attempts == {1, 2}

Terminal == {"idle", "done", "failed", "nofile"}

VARIABLES
    USE_OPENAI,      \* process configuration, fixed at start-up
    LOGO_BUF_CACHE,  \* the module-level mascot cache
    cacheWrites,     \* history: number of assignments to LOGO_BUF_CACHE
    firstLoaded,     \* history: bytes returned by the first successful getLogoBuffer
    pc,              \* per request: the await the handler is suspended on
    logoFetch,       \* per request: "none" | "inflight" read issued by getLogoBuffer
    logoBuf,         \* per request: what its getLogoBuffer() promise settled with
    logoAfter,       \* history: the call was made after firstLoaded was set
    calls,           \* per request and attempt: the provider call
    clock,           \* per request: ms since attempt 1 was issued, at the last handler step
    finalOut,        \* per request: the handler's local finalOut
    delivered,       \* per request: image passed to replyWithPhoto, once sent
    did              \* per request history: what has happened to it so far

\* The parts of the repository studied on their own, each under its own
\* specification: the provider client, the whole-image (Gemini) handler, the
\* timed fetches and the placement and mask arithmetic.
VARIABLES
    client,          \* one call of the region-edit provider client
    gem,             \* per request: the whole-image handler of part_003 / part_005
    net,             \* per request: the network awaits of the server.mjs handler
    geo,             \* one run of placeMascotDraft, the rect scaling and makeRectMask
    norm,            \* one photo through the two normalizeToSquare calls of a request
    runs,            \* two runs of placeMascotDraft on the same arguments
    relay            \* the relay bots (part_000, part_002, part_004): jobs and deliveries

auxVars == <<client, gem, net, geo, norm, runs, relay>>

handlerVars == <<LOGO_BUF_CACHE, cacheWrites, firstLoaded, pc, logoFetch,
                 logoBuf, logoAfter, calls, clock, finalOut, delivered, did>>

vars == <<USE_OPENAI, LOGO_BUF_CACHE, cacheWrites, firstLoaded, pc, logoFetch,
          logoBuf, logoAfter, calls, clock, finalOut, delivered, did, auxVars>>

cacheVars == <<LOGO_BUF_CACHE, cacheWrites, firstLoaded>>
logoVars  == <<logoFetch, logoBuf, logoAfter>>
blendVars == <<calls, clock, finalOut>>

NoCall == [st |-> "none", path |-> Null, lat |-> 0]
NoCalls == [k \in Attempts |-> NoCall]

\* ------------------------------------------------------------- functions
\* The image a successful attempt k yields.
AiImage(k) == IF k = 1 THEN "ai1" ELSE "ai2"

\* The path openaiBlendMascot takes on a provider answer: the image is
\* decoded and returned, the answer holds no b64_json ("return null"), or
\* the SDK call or the decoding throws and the catch block returns null.
ClientPath(out) ==
    CASE out = "image"   -> "image"
      [] out = "noimage" -> "noimage"
      [] OTHER           -> "caught"

\* Mutant: the decoded payload is returned without the sharp round trip, so
\* an undecodable payload comes back as a buffer instead of null.
openaiBlendMascot_NoDecode(out, k) ==
    IF out = "image" THEN AiImage(k) ELSE IF out = "malformed" THEN "raw" ELSE Null

\* Return value of openaiBlendMascot for a provider answer.
openaiBlendMascot(out, k) == IF ClientPath(out) = "image" THEN AiImage(k) ELSE Null

\* A call's promise once the handler has returned: only whether it is still
\* pending matters, the handler's view of it is gone with its locals.
Settled(c) == IF c.st \in {"none", "inflight"} THEN [NoCall EXCEPT !.st = c.st]
              ELSE [NoCall EXCEPT !.st = "settled"]

\* The handler returns: its locals go out of scope.
Leave(r) ==
    /\ calls' = [calls EXCEPT ![r] = [k \in Attempts |-> Settled(calls[r][k])]]
    /\ clock' = [clock EXCEPT ![r] = 0]
    /\ finalOut' = [finalOut EXCEPT ![r] = Null]
    /\ logoBuf' = [logoBuf EXCEPT ![r] = Null]
    /\ logoAfter' = [logoAfter EXCEPT ![r] = FALSE]

AttemptTimeout(k) == IF k = 1 THEN ATTEMPT1_TIMEOUT_MS ELSE ATTEMPT2_TIMEOUT_MS

AttemptPc(k) == IF k = 1 THEN "attempt1" ELSE "attempt2"

\* The catch block of the handler: log, send the generic error reply.
Fail(r) ==
    /\ pc' = [pc EXCEPT ![r] = "failed"]
    /\ did' = [did EXCEPT ![r] = @ \cup {"errorReply"}]
    /\ Leave(r)

\* ------------------------------------------------------------------ Init
\* No request has arrived yet.
HandlerStart ==
    /\ LOGO_BUF_CACHE = Null
    /\ cacheWrites = 0
    /\ firstLoaded = Null
    /\ pc = [r \in Requests |-> "idle"]
    /\ logoFetch = [r \in Requests |-> "none"]
    /\ logoBuf = [r \in Requests |-> Null]
    /\ logoAfter = [r \in Requests |-> FALSE]
    /\ calls = [r \in Requests |-> NoCalls]
    /\ clock = [r \in Requests |-> 0]
    /\ finalOut = [r \in Requests |-> Null]
    /\ delivered = [r \in Requests |-> Null]
    /\ did = [r \in Requests |-> {}]

\* The studied parts at rest.
AuxStart ==
    /\ client = Null /\ gem = Null /\ net = Null /\ geo = Null
    /\ norm = Null /\ runs = Null /\ relay = Null

Init ==
    /\ USE_OPENAI \in BOOLEAN
    /\ HandlerStart
    /\ AuxStart

\* --------------------------------------------------------------- actions
\* A photo update arrives: the handler starts and sends the wait message.
\* (A slot is taken again only once the mascot read it issued has settled.)
Receive(r) ==
    /\ pc[r] \in Terminal
    /\ logoFetch[r] = "none"
    /\ pc' = [pc EXCEPT ![r] = "wait"]
    /\ calls' = [calls EXCEPT ![r] = NoCalls]
    /\ delivered' = [delivered EXCEPT ![r] = Null]
    /\ did' = [did EXCEPT ![r] = {}]
    /\ UNCHANGED <<auxVars, USE_OPENAI, cacheVars, logoVars, clock, finalOut>>

\* ctx.reply(wait message) settles; the file id is read; tgGetFileUrl is called.
WaitMsgSent(r, ok, hasFile) ==
    /\ pc[r] = "wait"
    /\ IF ~ok THEN Fail(r)
       ELSE /\ pc' = [pc EXCEPT ![r] = IF hasFile THEN "getfile" ELSE "noedit"]
            /\ UNCHANGED <<did, blendVars, logoBuf, logoAfter>>
    /\ UNCHANGED <<auxVars, USE_OPENAI, cacheVars, logoFetch, delivered>>

\* Without a file id the wait message is edited into "Could not read that
\* image" and the handler returns.
NoFileEdited(r, ok) ==
    /\ pc[r] = "noedit"
    /\ IF ~ok THEN Fail(r)
       ELSE /\ pc' = [pc EXCEPT ![r] = "nofile"]
            /\ did' = [did EXCEPT ![r] = @ \cup {"nofileReply"}]
            /\ Leave(r)
    /\ UNCHANGED <<auxVars, USE_OPENAI, cacheVars, logoFetch, delivered>>

\* tgGetFileUrl settles; fetchBuffer(fileUrl) is called.
GetFileUrlDone(r, ok) ==
    /\ pc[r] = "getfile"
    /\ IF ~ok THEN Fail(r)
       ELSE /\ pc' = [pc EXCEPT ![r] = "download"]
            /\ UNCHANGED <<did, blendVars, logoBuf, logoAfter>>
    /\ UNCHANGED <<auxVars, USE_OPENAI, cacheVars, logoFetch, delivered>>

\* The photo bytes arrive; Promise.all starts the two normalizations and
\* getLogoBuffer(), whose synchronous part tests the cache.
DownloadDone(r, ok) ==
    /\ pc[r] = "download"
    /\ IF ~ok THEN Fail(r) /\ UNCHANGED logoFetch
       ELSE /\ pc' = [pc EXCEPT ![r] = "prepare"]
            /\ logoAfter' = [logoAfter EXCEPT ![r] = (firstLoaded # Null)]
            /\ IF LOGO_BUF_CACHE # Null
               THEN /\ logoBuf' = [logoBuf EXCEPT ![r] = LOGO_BUF_CACHE]
                    /\ UNCHANGED logoFetch
               ELSE /\ logoFetch' = [logoFetch EXCEPT ![r] = "inflight"]
                    /\ UNCHANGED logoBuf
            /\ UNCHANGED <<did, blendVars>>
    /\ UNCHANGED <<auxVars, USE_OPENAI, cacheVars, delivered>>

\* Mutant: the cache is assigned before the read is awaited, so a failed
\* read leaves its failure in the cache.
LogoFetchDone_CachesFailure(r, res) ==
    /\ logoFetch[r] = "inflight"
    /\ logoFetch' = [logoFetch EXCEPT ![r] = "none"]
    /\ LOGO_BUF_CACHE' = res
    /\ IF res = "error"
       THEN UNCHANGED <<cacheWrites, firstLoaded>>
       ELSE /\ cacheWrites' = cacheWrites + 1
            /\ firstLoaded' = IF firstLoaded = Null THEN res ELSE firstLoaded
    /\ logoBuf' = [logoBuf EXCEPT ![r] = IF pc[r] = "prepare" THEN res ELSE @]
    /\ did' = [did EXCEPT ![r] =
                  IF pc[r] = "prepare" /\ res = "error" THEN @ \cup {"mascotError"} ELSE @]
    /\ UNCHANGED <<auxVars, USE_OPENAI, pc, logoAfter, blendVars, delivered>>

\* The read of the mascot source issued by getLogoBuffer settles: on success
\* the cache is assigned and returned, on failure the call throws.  The
\* read goes on when Promise.all has already rejected.
LogoFetchDone(r, res) ==
    /\ logoFetch[r] = "inflight"
    /\ logoFetch' = [logoFetch EXCEPT ![r] = "none"]
    /\ IF res = "error"
       THEN UNCHANGED cacheVars
       ELSE /\ LOGO_BUF_CACHE' = res
            /\ cacheWrites' = cacheWrites + 1
            /\ firstLoaded' = IF firstLoaded = Null THEN res ELSE firstLoaded
    /\ logoBuf' = [logoBuf EXCEPT ![r] = IF pc[r] = "prepare" THEN res ELSE @]
    /\ did' = [did EXCEPT ![r] =
                  IF pc[r] = "prepare" /\ res = "error" THEN @ \cup {"mascotError"} ELSE @]
    /\ UNCHANGED <<auxVars, USE_OPENAI, pc, logoAfter, blendVars, delivered>>

\* Mutant: the members are joined with Promise.allSettled and a rejected
\* mascot load is not looked at.
PrepareJoin_AllSettled(r, normOk) ==
    /\ pc[r] = "prepare"
    /\ ~normOk \/ logoBuf[r] # Null
    /\ IF ~normOk THEN Fail(r)
       ELSE /\ pc' = [pc EXCEPT ![r] = "draft"]
            /\ did' = [did EXCEPT ![r] = @ \cup {"draft"}]
            /\ UNCHANGED <<blendVars, logoBuf, logoAfter>>
    /\ UNCHANGED <<auxVars, USE_OPENAI, cacheVars, logoFetch, delivered>>

\* Promise.all settles: it rejects as soon as one member rejects, and
\* resolves when both normalizations and the mascot are there; then
\* placeMascotDraft is called on the AI-sized image.
PrepareJoin(r, normOk) ==
    /\ pc[r] = "prepare"
    /\ ~normOk \/ logoBuf[r] # Null
    /\ IF ~normOk \/ logoBuf[r] = "error" THEN Fail(r)
       ELSE /\ pc' = [pc EXCEPT ![r] = "draft"]
            /\ did' = [did EXCEPT ![r] = @ \cup {"draft"}]
            /\ UNCHANGED <<blendVars, logoBuf, logoAfter>>
    /\ UNCHANGED <<auxVars, USE_OPENAI, cacheVars, logoFetch, delivered>>

\* Mutant: the provider switch is not tested, the blend is always tried.
DraftDone_AlwaysBlends(r, ok) ==
    /\ pc[r] = "draft"
    /\ IF ~ok THEN Fail(r)
       ELSE /\ pc' = [pc EXCEPT ![r] = "mask"]
            /\ logoBuf' = [logoBuf EXCEPT ![r] = "held"]
            /\ logoAfter' = [logoAfter EXCEPT ![r] = FALSE]
            /\ UNCHANGED <<did, blendVars>>
    /\ UNCHANGED <<auxVars, USE_OPENAI, cacheVars, logoFetch, delivered>>

\* placeMascotDraft (AI size) settles.  With the provider enabled the draft
\* is upscaled and the mask is built; without it the fallback composite is
\* started at once.  (From here on the handler only holds the mascot; which
\* bytes it holds no longer decides a step, so the model keeps "held".)
DraftDone(r, ok) ==
    /\ pc[r] = "draft"
    /\ IF ~ok THEN Fail(r)
       ELSE /\ IF USE_OPENAI
               THEN pc' = [pc EXCEPT ![r] = "mask"] /\ UNCHANGED did
               ELSE /\ pc' = [pc EXCEPT ![r] = "fallback"]
                    /\ did' = [did EXCEPT ![r] = @ \cup {"fallback"}]
            /\ logoBuf' = [logoBuf EXCEPT ![r] = "held"]
            /\ logoAfter' = [logoAfter EXCEPT ![r] = FALSE]
            /\ UNCHANGED blendVars
    /\ UNCHANGED <<auxVars, USE_OPENAI, cacheVars, logoFetch, delivered>>

\* Mutant: both provider calls are issued at once and raced together.
MaskDone_BothCalls(r, ok) ==
    /\ pc[r] = "mask"
    /\ IF ~ok THEN Fail(r)
       ELSE /\ pc' = [pc EXCEPT ![r] = "attempt1"]
            /\ calls' = [calls EXCEPT ![r][1].st = "inflight", ![r][2].st = "inflight"]
            /\ UNCHANGED <<did, clock, finalOut, logoBuf, logoAfter>>
    /\ UNCHANGED <<auxVars, USE_OPENAI, cacheVars, logoFetch, delivered>>

\* The upscaled draft and the mask are there: attempt 1 is issued and raced
\* against sleep(12000).
MaskDone(r, ok) ==
    /\ pc[r] = "mask"
    /\ IF ~ok THEN Fail(r)
       ELSE /\ pc' = [pc EXCEPT ![r] = "attempt1"]
            /\ calls' = [calls EXCEPT ![r][1].st = "inflight"]
            /\ UNCHANGED <<did, clock, finalOut, logoBuf, logoAfter>>
    /\ UNCHANGED <<auxVars, USE_OPENAI, cacheVars, logoFetch, delivered>>

\* Mutant: the answer and the timer are joined (Promise.all) instead of
\* raced, so an answer is only looked at when the window is over.
RespondAwaited_WaitsWindow(r, k, out, lat) ==
    /\ pc[r] = AttemptPc(k)
    /\ calls[r][k].st = "inflight"
    /\ lat <= AttemptTimeout(k)
    /\ calls' = [calls EXCEPT ![r][k] =
                    [st |-> "won", path |-> ClientPath(out), lat |-> lat]]
    /\ clock' = [clock EXCEPT ![r] = @ + AttemptTimeout(k)]
    /\ finalOut' = [finalOut EXCEPT ![r] = openaiBlendMascot(out, k)]
    /\ IF openaiBlendMascot(out, k) # Null
       THEN pc' = [pc EXCEPT ![r] = "deliver"] /\ UNCHANGED did
       ELSE IF k = 1
            THEN pc' = [pc EXCEPT ![r] = "backoff"] /\ UNCHANGED did
            ELSE /\ pc' = [pc EXCEPT ![r] = "fallback"]
                 /\ did' = [did EXCEPT ![r] = @ \cup {"fallback"}]
    /\ UNCHANGED <<auxVars, USE_OPENAI, cacheVars, logoVars, delivered>>

\* Mutant: attempt 1's result is not tested, attempt 2 always follows.
RespondAwaited_AlwaysRetries(r, k, out, lat) ==
    /\ pc[r] = AttemptPc(k)
    /\ calls[r][k].st = "inflight"
    /\ lat <= AttemptTimeout(k)
    /\ calls' = [calls EXCEPT ![r][k] =
                    [st |-> "won", path |-> ClientPath(out), lat |-> lat]]
    /\ clock' = [clock EXCEPT ![r] = @ + lat]
    /\ finalOut' = [finalOut EXCEPT ![r] = openaiBlendMascot(out, k)]
    /\ IF k = 1
       THEN pc' = [pc EXCEPT ![r] = "backoff"] /\ UNCHANGED did
       ELSE IF openaiBlendMascot(out, k) # Null
            THEN pc' = [pc EXCEPT ![r] = "deliver"] /\ UNCHANGED did
            ELSE /\ pc' = [pc EXCEPT ![r] = "fallback"]
                 /\ did' = [did EXCEPT ![r] = @ \cup {"fallback"}]
    /\ UNCHANGED <<auxVars, USE_OPENAI, cacheVars, logoVars, delivered>>

\* The provider answers the call the handler is racing, inside its window.
RespondAwaited(r, k, out, lat) ==
    /\ pc[r] = AttemptPc(k)
    /\ calls[r][k].st = "inflight"
    /\ lat <= AttemptTimeout(k)
    /\ calls' = [calls EXCEPT ![r][k] =
                    [st |-> "won", path |-> ClientPath(out), lat |-> lat]]
    /\ clock' = [clock EXCEPT ![r] = @ + lat]
    /\ finalOut' = [finalOut EXCEPT ![r] = openaiBlendMascot(out, k)]
    /\ IF openaiBlendMascot(out, k) # Null
       THEN pc' = [pc EXCEPT ![r] = "deliver"] /\ UNCHANGED did
       ELSE IF k = 1
            THEN pc' = [pc EXCEPT ![r] = "backoff"] /\ UNCHANGED did
            ELSE /\ pc' = [pc EXCEPT ![r] = "fallback"]
                 /\ did' = [did EXCEPT ![r] = @ \cup {"fallback"}]
    /\ UNCHANGED <<auxVars, USE_OPENAI, cacheVars, logoVars, delivered>>

\* Mutant: a late image is stored into finalOut by a then-callback.
RespondLate_Overwrites(r, k, out) ==
    /\ pc[r] # AttemptPc(k)
    /\ calls[r][k].st = "inflight"
    /\ out \in Outcomes
    /\ calls' = [calls EXCEPT ![r][k].st =
                    IF pc[r] \in Terminal THEN "settled" ELSE "late"]
    /\ finalOut' = [finalOut EXCEPT ![r] =
                    IF pc[r] \notin Terminal /\ openaiBlendMascot(out, k) # Null
                    THEN openaiBlendMascot(out, k) ELSE @]
    /\ UNCHANGED <<auxVars, USE_OPENAI, cacheVars, logoVars, pc, clock, delivered, did>>

\* The provider answers a call whose race the timer has already won: the
\* promise settles and nobody reads it.
RespondLate(r, k, out) ==
    /\ pc[r] # AttemptPc(k)
    /\ calls[r][k].st = "inflight"
    /\ out \in Outcomes
    /\ calls' = [calls EXCEPT ![r][k].st =
                    IF pc[r] \in Terminal THEN "settled" ELSE "late"]
    /\ UNCHANGED <<auxVars, USE_OPENAI, cacheVars, logoVars, pc, clock, finalOut, delivered, did>>

\* Mutant: when sleep(12000) wins, attempt 2 is issued at once, without the
\* backoff sleep.
Timeout1_RetriesAtOnce(r) ==
    /\ pc[r] = "attempt1"
    /\ clock' = [clock EXCEPT ![r] = @ + ATTEMPT1_TIMEOUT_MS]
    /\ finalOut' = [finalOut EXCEPT ![r] = Null]
    /\ calls' = [calls EXCEPT ![r][2].st = "inflight"]
    /\ pc' = [pc EXCEPT ![r] = "attempt2"]
    /\ UNCHANGED <<auxVars, USE_OPENAI, cacheVars, logoVars, delivered, did>>

\* sleep(12000) wins the first race.
Timeout1(r) ==
    /\ pc[r] = "attempt1"
    /\ clock' = [clock EXCEPT ![r] = @ + ATTEMPT1_TIMEOUT_MS]
    /\ finalOut' = [finalOut EXCEPT ![r] = Null]
    /\ pc' = [pc EXCEPT ![r] = "backoff"]
    /\ UNCHANGED <<auxVars, USE_OPENAI, cacheVars, logoVars, calls, delivered, did>>

\* Mutant: the backoff sleeps for a whole attempt window.
BackoffElapsed_WaitsAWindow(r) ==
    /\ pc[r] = "backoff"
    /\ clock' = [clock EXCEPT ![r] = @ + ATTEMPT1_TIMEOUT_MS]
    /\ calls' = [calls EXCEPT ![r][2].st = "inflight"]
    /\ pc' = [pc EXCEPT ![r] = "attempt2"]
    /\ UNCHANGED <<auxVars, USE_OPENAI, cacheVars, logoVars, finalOut, delivered, did>>

\* sleep(1200) is over: attempt 2 is issued and raced against sleep(8000).
BackoffElapsed(r) ==
    /\ pc[r] = "backoff"
    /\ clock' = [clock EXCEPT ![r] = @ + BACKOFF_MS]
    /\ calls' = [calls EXCEPT ![r][2].st = "inflight"]
    /\ pc' = [pc EXCEPT ![r] = "attempt2"]
    /\ UNCHANGED <<auxVars, USE_OPENAI, cacheVars, logoVars, finalOut, delivered, did>>

\* Mutant: attempt 2 is awaited without a timer (await tryOnce()).
Timeout2_NoTimer(r) ==
    /\ pc[r] = "attempt2"
    /\ calls[r][2].st # "inflight"
    /\ UNCHANGED vars

\* sleep(8000) wins the second race; the fallback composite is started.
Timeout2(r) ==
    /\ pc[r] = "attempt2"
    /\ clock' = [clock EXCEPT ![r] = @ + ATTEMPT2_TIMEOUT_MS]
    /\ finalOut' = [finalOut EXCEPT ![r] = Null]
    /\ pc' = [pc EXCEPT ![r] = "fallback"]
    /\ did' = [did EXCEPT ![r] = @ \cup {"fallback"}]
    /\ UNCHANGED <<auxVars, USE_OPENAI, cacheVars, logoVars, calls, delivered>>

\* Mutant: the fallback composite is sent as soon as it is built, and the
\* delivery step sends the final image once more.
FallbackDone_SendsAtOnce(r, ok) ==
    /\ pc[r] = "fallback"
    /\ IF ~ok THEN Fail(r) /\ UNCHANGED delivered
       ELSE /\ finalOut' = [finalOut EXCEPT ![r] = "fallback"]
            /\ delivered' = [delivered EXCEPT ![r] = "fallback"]
            /\ pc' = [pc EXCEPT ![r] = "deliver"]
            /\ UNCHANGED <<did, calls, clock, logoBuf, logoAfter>>
    /\ UNCHANGED <<auxVars, USE_OPENAI, cacheVars, logoFetch>>

\* Mutant: the fallback reuses the draft already built, upscaled to the
\* output size, instead of running placeMascotDraft again.
FallbackDone_ReusesDraft(r, ok) ==
    /\ pc[r] = "fallback"
    /\ IF ~ok THEN Fail(r)
       ELSE /\ finalOut' = [finalOut EXCEPT ![r] = "draftFull"]
            /\ pc' = [pc EXCEPT ![r] = "deliver"]
            /\ UNCHANGED <<did, calls, clock, logoBuf, logoAfter>>
    /\ UNCHANGED <<auxVars, USE_OPENAI, cacheVars, logoFetch, delivered>>

\* placeMascotDraft on the full-size image settles; replyWithPhoto is called.
FallbackDone(r, ok) ==
    /\ pc[r] = "fallback"
    /\ IF ~ok THEN Fail(r)
       ELSE /\ finalOut' = [finalOut EXCEPT ![r] = "fallback"]
            /\ pc' = [pc EXCEPT ![r] = "deliver"]
            /\ UNCHANGED <<did, calls, clock, logoBuf, logoAfter>>
    /\ UNCHANGED <<auxVars, USE_OPENAI, cacheVars, logoFetch, delivered>>

\* Mutant: the final image is kept in one module-level variable, so the
\* handler sends whatever image a request stored there last.
DeliverDone_SharedFinalOut(r, ok) ==
    /\ pc[r] = "deliver"
    /\ IF ~ok THEN Fail(r) /\ UNCHANGED delivered
       ELSE /\ \E q \in Requests :
                  /\ finalOut[q] # Null
                  /\ delivered' = [delivered EXCEPT ![r] = finalOut[q]]
            /\ pc' = [pc EXCEPT ![r] = "done"]
            /\ Leave(r)
            /\ UNCHANGED did
    /\ UNCHANGED <<auxVars, USE_OPENAI, cacheVars, logoFetch>>

\* replyWithPhoto(finalOut) settles; the handler returns.
DeliverDone(r, ok) ==
    /\ pc[r] = "deliver"
    /\ IF ~ok THEN Fail(r) /\ UNCHANGED delivered
       ELSE /\ delivered' = [delivered EXCEPT ![r] = finalOut[r]]
            /\ pc' = [pc EXCEPT ![r] = "done"]
            /\ Leave(r)
            /\ UNCHANGED did
    /\ UNCHANGED <<auxVars, USE_OPENAI, cacheVars, logoFetch>>

Next ==
    \E r \in Requests :
        \/ Receive(r)
        \/ \E ok \in BOOLEAN, hasFile \in BOOLEAN : WaitMsgSent(r, ok, hasFile)
        \/ \E ok \in BOOLEAN : NoFileEdited(r, ok)
        \/ \E ok \in BOOLEAN : GetFileUrlDone(r, ok)
        \/ \E ok \in BOOLEAN : DownloadDone(r, ok)
        \/ \E res \in MascotBytes \cup {"error"} : LogoFetchDone(r, res)
        \/ \E normOk \in BOOLEAN : PrepareJoin(r, normOk)
        \/ \E ok \in BOOLEAN : DraftDone(r, ok)
        \/ \E ok \in BOOLEAN : MaskDone(r, ok)
        \/ \E k \in Attempts, out \in Outcomes, lat \in Latencies :
               RespondAwaited(r, k, out, lat)
        \/ \E k \in Attempts, out \in Outcomes : RespondLate(r, k, out)
        \/ Timeout1(r)
        \/ BackoffElapsed(r)
        \/ Timeout2(r)
        \/ \E ok \in BOOLEAN : FallbackDone(r, ok)
        \/ \E ok \in BOOLEAN : DeliverDone(r, ok)

Spec == Init /\ [][Next]_vars

\* Node's timers fire and the local sharp operations and the Telegram send
\* settle (with a value or an exception); nothing is assumed of the provider.
Fairness ==
    \A r \in Requests :
        /\ WF_vars(Timeout1(r))
        /\ WF_vars(BackoffElapsed(r))
        /\ WF_vars(Timeout2(r))
        /\ WF_vars(\E ok \in BOOLEAN : FallbackDone(r, ok))

FairSpec == Spec /\ Fairness

\* ------------------------------------------------------------ properties
Images == {"ai1", "ai2", "fallback"}

\* C1: a request that has issued blend attempt 1 reaches the delivery step
\* whatever the provider does (answer, no image, failure, silence), unless
\* the local fallback composite itself fails; and at the delivery step the
\* final image is never absent.
C1_AlwaysResolves ==
    /\ [](\A r \in Requests : pc[r] = "deliver" => finalOut[r] \in Images)
    /\ \A r \in Requests :
          (pc[r] = "attempt1") ~>
              (pc[r] = "deliver" \/ (pc[r] = "failed" /\ "fallback" \in did[r]))

\* C1 witness: the provider never answered either call and the request
\* stands at the delivery step with the fallback image.
C1_Witness ==
    \E r \in Requests :
        /\ pc[r] = "deliver"
        /\ calls[r][1].st = "inflight"
        /\ calls[r][2].st = "inflight"
        /\ finalOut[r] = "fallback"


\* A call the handler has stopped racing, or has never raced.
Active(r) == pc[r] \notin Terminal

WonWith(r, k, path) == calls[r][k].st = "won" /\ calls[r][k].path = path

\* Attempt k of request r is over and gave the handler no image.
NonSuccess(r, k) ==
    /\ Active(r)
    /\ pc[r] # AttemptPc(k)
    /\ \/ calls[r][k].st \in {"inflight", "late"}
       \/ calls[r][k].st = "won" /\ calls[r][k].path # "image"

\* C2 (as claimed): at no time are the two provider calls of one request in
\* flight together.
C2_NeverTwoInFlight ==
    \A r \in Requests :
        ~(calls[r][1].st = "inflight" /\ calls[r][2].st = "inflight")

\* C2 (amended): the handler races one call at a time.  Attempt 2 is issued
\* only when the race of attempt 1 has settled and the backoff has elapsed;
\* when attempt 1 ended with an answer its call is over by then, and two
\* calls are in flight together only after attempt 1 ended by its timeout.
C2_SequentialRaces ==
    \A r \in Requests :
        /\ pc[r] \in {"wait", "noedit", "getfile", "download", "prepare", "draft", "mask",
                      "attempt1", "backoff"} => calls[r][2].st = "none"
        /\ calls[r][2].st # "none" /\ Active(r) =>
              /\ calls[r][1].st \in {"won", "inflight", "late"}
              /\ clock[r] >= BACKOFF_MS
              /\ calls[r][1].st = "won" => clock[r] >= calls[r][1].lat + BACKOFF_MS
              /\ calls[r][1].st # "won" => clock[r] >= ATTEMPT1_TIMEOUT_MS + BACKOFF_MS

\* C2 witness: attempt 2 is in flight after attempt 1 was answered in time.
C2_Witness ==
    \E r \in Requests :
        /\ pc[r] = "attempt2"
        /\ calls[r][2].st = "inflight"
        /\ WonWith(r, 1, "noimage")

\* C3: requests that call getLogoBuffer together on an empty cache share one
\* read of the mascot source (never two reads in flight) and go on with the
\* same bytes.
C3_SingleFlight ==
    /\ Cardinality({r \in Requests : logoFetch[r] = "inflight"}) <= 1
    /\ \A r1, r2 \in Requests :
          /\ pc[r1] \in {"prepare", "draft"} /\ pc[r2] \in {"prepare", "draft"}
          /\ logoBuf[r1] \in MascotBytes /\ logoBuf[r2] \in MascotBytes
          => logoBuf[r1] = logoBuf[r2]

\* C4: LOGO_BUF_CACHE is assigned at most once in the life of the process.
C4_WrittenOnce == cacheWrites <= 1

\* C5: once a getLogoBuffer call has completed successfully, every call made
\* later issues no read and returns the bytes that first call returned.
C5_LaterCallsCached ==
    \A r \in Requests :
        logoAfter[r] =>
            /\ logoFetch[r] = "none"
            /\ logoBuf[r] = firstLoaded

\* C6: the final image is only ever the fallback composite or the image of a
\* call that answered while it was being raced, inside its window; an answer
\* that arrives after its timer won is never the final or delivered image.
C6_LateResultDiscarded ==
    \A r \in Requests :
        /\ Active(r) /\ finalOut[r] # Null =>
              \/ finalOut[r] = "fallback" /\ "fallback" \in did[r]
              \/ \E k \in Attempts :
                    /\ finalOut[r] = AiImage(k)
                    /\ WonWith(r, k, "image")
                    /\ calls[r][k].lat <= AttemptTimeout(k)
        /\ pc[r] = "deliver" /\ (\E k \in Attempts : calls[r][k].st = "late") =>
              finalOut[r] \in {"fallback", "ai2"}
        /\ pc[r] = "done" =>
              \/ delivered[r] = "fallback"
              \/ \E k \in Attempts :
                    delivered[r] = AiImage(k) /\ calls[r][k].st = "settled"

\* C6 witness: attempt 1 timed out, its answer came late, and the request
\* stands at the delivery step.
C6_Witness ==
    \E r \in Requests :
        /\ pc[r] = "deliver"
        /\ calls[r][1].st = "late"
        /\ finalOut[r] \in {"fallback", "ai2"}

\* C7: when attempt 1 answers with an image inside its window the request
\* resolves with that image at once: no backoff, no attempt 2, no fallback
\* composite, and the image delivered is attempt 1's.
C7_FirstAttemptWins ==
    \A r \in Requests :
        /\ WonWith(r, 1, "image") =>
              /\ pc[r] = "deliver"
              /\ finalOut[r] = "ai1"
              /\ clock[r] = calls[r][1].lat
              /\ calls[r][2].st = "none"
              /\ "fallback" \notin did[r]
        /\ delivered[r] = "ai1" =>
              /\ pc[r] = "done"
              /\ calls[r][2].st = "none"
              /\ "fallback" \notin did[r]
        /\ Active(r) /\ calls[r][1].st = "won" /\ calls[r][2].st # "none" =>
              calls[r][1].path # "image"

\* C7 witness: a request delivered attempt 1's image.
C7_Witness ==
    \E r \in Requests : pc[r] = "done" /\ delivered[r] = "ai1"

\* C8: every way an attempt can end without an image is handled alike:
\* after attempt 1 the handler backs off and issues attempt 2, after
\* attempt 2 it runs the fallback composite, and the image at the delivery
\* step is then the fallback composite.
C8_UniformNonSuccess ==
    \A r \in Requests :
        /\ NonSuccess(r, 1) =>
              /\ pc[r] \in {"backoff", "attempt2", "fallback", "deliver"}
              /\ pc[r] # "backoff" => calls[r][2].st # "none"
        /\ NonSuccess(r, 1) /\ NonSuccess(r, 2) =>
              /\ pc[r] \in {"fallback", "deliver"}
              /\ "fallback" \in did[r]
              /\ pc[r] = "deliver" => finalOut[r] = "fallback"
        /\ Active(r) => finalOut[r] \in Images \cup {Null}

\* C8 witness: attempt 1 failed in the client, attempt 2 timed out, and the
\* fallback composite stands at the delivery step.
C8_Witness ==
    \E r \in Requests :
        /\ pc[r] = "deliver"
        /\ WonWith(r, 1, "caught")
        /\ calls[r][2].st = "inflight"
        /\ finalOut[r] = "fallback"

\* C9: an answer without an image ends its attempt when it arrives; with
\* such an answer on both attempts the fallback is chosen after the two
\* response times plus the backoff.
C9_NoImageEndsAttempt ==
    \A r \in Requests :
        /\ pc[r] = "backoff" /\ WonWith(r, 1, "noimage") =>
              clock[r] = calls[r][1].lat
        /\ WonWith(r, 1, "noimage") /\ WonWith(r, 2, "noimage") =>
              /\ pc[r] \in {"fallback", "deliver"}
              /\ "fallback" \in did[r]
              /\ clock[r] = calls[r][1].lat + BACKOFF_MS + calls[r][2].lat

\* C9 witness: both attempts were answered without an image and the fallback
\* was chosen before even the first window would have ended.
C9_Witness ==
    \E r \in Requests :
        /\ pc[r] = "fallback"
        /\ WonWith(r, 1, "noimage")
        /\ WonWith(r, 2, "noimage")
        /\ clock[r] < ATTEMPT1_TIMEOUT_MS

\* C10: when the mascot load fails the request ends with the generic error
\* reply: no draft was composited, no provider call issued, no image sent.
C10_MascotFailureIsFatal ==
    \A r \in Requests :
        "mascotError" \in did[r] =>
            /\ pc[r] \in {"prepare", "failed"}
            /\ pc[r] = "failed" => "errorReply" \in did[r]
            /\ "draft" \notin did[r]
            /\ "fallback" \notin did[r]
            /\ \A k \in Attempts : calls[r][k].st = "none"
            /\ delivered[r] = Null

\* C10 witness: a request whose mascot load failed has ended with the error
\* reply.
C10_Witness ==
    \E r \in Requests :
        /\ pc[r] = "failed"
        /\ "mascotError" \in did[r]
        /\ "errorReply" \in did[r]

\* ======================================================================
\* The region-edit provider client on its own: openaiBlendMascot of
\* server.mjs (through the SDK) and openaiBlendMascotHTTP of part_001
\* (multipart POST through fetchWithTimeout), applied to every answer the
\* provider's endpoint can give.
\* ======================================================================
Variants == {"sdk", "http"}

\* How the HTTP exchange ends: a response arrives, the connection fails, or
\* the 25 s timer of fetchWithTimeout aborts the request.
Transports == {"response", "networkError", "abort"}

Statuses == {200, 400, 429, 500}

\* The response body: JSON with a decodable image, JSON whose b64_json is not
\* an image, JSON without b64_json, a JSON error object, not JSON at all.
Bodies == {"image", "undecodable", "noimage", "errorJson", "nonJson"}

\* A status outside 2xx comes with an error body, never with image data.
Answers ==
    {a \in [transport : Transports, status : Statuses, body : Bodies] :
        a.status # 200 => a.body \in {"errorJson", "nonJson"}}

\* An exception leaving a block or a function.
Thrown == "thrown"

\* The answer carries nothing the client can return as an image.
ProviderFailure(a) ==
    \/ a.transport # "response"
    \/ a.status # 200
    \/ a.body # "image"

\* The answer as the SDK call of server.mjs shows it to the client: the SDK
\* rejects on a connection error, on a status outside 2xx and on a body it
\* cannot parse.
OutcomeOf(a) ==
    IF a.transport # "response" THEN "error"
    ELSE IF a.status = 429 THEN "quota"
    ELSE IF a.status # 200 \/ a.body = "nonJson" THEN "error"
    ELSE IF a.body = "undecodable" THEN "malformed"
    ELSE IF a.body = "image" THEN "image"
    ELSE "noimage"

\* The try block of openaiBlendMascotHTTP: await fetchWithTimeout, await
\* resp.json(), the b64_json test, the sharp round trip.  The status is never
\* looked at.
HttpTryBlock(a) ==
    IF a.transport # "response" THEN Thrown
    ELSE IF a.body = "nonJson" THEN Thrown
    ELSE IF a.body \notin {"image", "undecodable"} THEN Null
    ELSE IF a.body = "undecodable" THEN Thrown
    ELSE "image"

\* Mutant: the payload is decoded after the try/catch instead of inside it.
openaiBlendMascotHTTP_DecodeOutsideTry(enabled, a) ==
    IF ~enabled THEN Null
    ELSE IF a.transport = "response" /\ a.body = "undecodable" THEN Thrown
    ELSE IF HttpTryBlock(a) = Thrown THEN Null
    ELSE HttpTryBlock(a)

\* openaiBlendMascotHTTP: the guard, the multipart form (built from buffers
\* and literals, outside the try), the try block and its catch.
openaiBlendMascotHTTP(enabled, a) ==
    IF ~enabled THEN Null
    ELSE IF HttpTryBlock(a) = Thrown THEN Null
    ELSE HttpTryBlock(a)

\* openaiBlendMascot of server.mjs on the same answer.
openaiBlendMascotSDK(enabled, a) ==
    IF ~enabled THEN Null
    ELSE IF openaiBlendMascot(OutcomeOf(a), 1) = Null THEN Null
    ELSE "image"

ClientInit ==
    /\ USE_OPENAI \in BOOLEAN
    /\ HandlerStart
    /\ client \in [variant : Variants, answer : Answers, st : {"input"}, ret : {Null}]
    /\ gem = Null /\ net = Null /\ geo = Null
    /\ norm = Null /\ runs = Null /\ relay = Null

\* What the caller of the client sees: a value, or an exception.
ClientCalled(ret) ==
    /\ client' = IF ret = Thrown THEN [client EXCEPT !.st = "thrown"]
                 ELSE [client EXCEPT !.st = "returned", !.ret = ret]
    /\ UNCHANGED <<USE_OPENAI, handlerVars, gem, net, geo, norm, runs, relay>>

CallSDK ==
    /\ client.st = "input"
    /\ client.variant = "sdk"
    /\ ClientCalled(openaiBlendMascotSDK(USE_OPENAI, client.answer))

CallHTTP ==
    /\ client.st = "input"
    /\ client.variant = "http"
    /\ ClientCalled(openaiBlendMascotHTTP(USE_OPENAI, client.answer))

ClientNext == CallSDK \/ CallHTTP

ClientSpec == ClientInit /\ [][ClientNext]_vars

GemVariants == {"part_003", "part_005"}

\* Number of entries of modelCandidates.
GemModels(v) == IF v = "part_005" THEN 2 ELSE 1

GemTerminal == {"idle", "done", "failed", "nofile"}

GemIdle == [pc |-> "idle", model |-> 0, finalOut |-> Null, delivered |-> Null,
            caption |-> Null, cause |-> Null]

\* The handler's catch block: console.error, then the error reply.
GemFail(r, why) ==
    gem' = [gem EXCEPT !.req[r] = [GemIdle EXCEPT !.pc = "failed", !.cause = why]]

\* One await of the handler that either resolves, taking it to the next
\* await, or rejects into the catch block.
GemStep(r, from, to, ok, why) ==
    /\ gem.req[r].pc = from
    /\ IF ok THEN gem' = [gem EXCEPT !.req[r].pc = to] ELSE GemFail(r, why)
    /\ UNCHANGED <<USE_OPENAI, handlerVars, client, net, geo, norm, runs, relay>>

GemInit ==
    /\ USE_OPENAI = FALSE
    /\ HandlerStart
    /\ gem \in [variant : GemVariants, req : {[r \in Requests |-> GemIdle]}]
    /\ client = Null /\ net = Null /\ geo = Null
    /\ norm = Null /\ runs = Null /\ relay = Null

\* A photo update arrives; the handler awaits sendChatAction.
GemReceive(r) ==
    /\ gem.req[r].pc \in GemTerminal
    /\ gem' = [gem EXCEPT !.req[r] = [GemIdle EXCEPT !.pc = "chatAction"]]
    /\ UNCHANGED <<USE_OPENAI, handlerVars, client, net, geo, norm, runs, relay>>

\* sendChatAction settled; without a file id the handler replies and returns.
GemChatActionDone(r, ok, hasFile) ==
    GemStep(r, "chatAction", IF hasFile THEN "getfile" ELSE "nofile", ok, "transport")

GemGetFileUrlDone(r, ok) == GemStep(r, "getfile", "download", ok, "transport")

GemDownloadDone(r, ok) == GemStep(r, "download", "normalize", ok, "transport")

GemNormalizeDone(r, ok) == GemStep(r, "normalize", "logo", ok, "decode")

\* The mascot is read again on every request; then aiInsertLogoCat posts to
\* the first model.
GemLogoDone(r, ok) ==
    /\ gem.req[r].pc = "logo"
    /\ IF ok THEN gem' = [gem EXCEPT !.req[r].pc = "provider", !.req[r].model = 1]
       ELSE GemFail(r, "asset")
    /\ UNCHANGED <<USE_OPENAI, handlerVars, client, net, geo, norm, runs, relay>>

\* The awaited fetch of generateContent settles: response headers, or a
\* connection error, which nothing inside aiInsertLogoCat catches.
GemFetchSettled(r, ok) == GemStep(r, "provider", "providerBody", ok, "provider")

\* resp.json() settles.  A body that is not JSON rejects; a JSON body without
\* an image part moves on to the next model or returns null; an image part
\* goes through sharp, which rejects when the bytes are not an image.
GemBodyRead(r, body) ==
    /\ gem.req[r].pc = "providerBody"
    /\ IF body \in {"nonJson", "undecodable"} THEN GemFail(r, "provider")
       ELSE IF body = "image"
            THEN gem' = [gem EXCEPT !.req[r].pc = "deliver",
                                    !.req[r].finalOut = "generative",
                                    !.req[r].caption = "generative"]
       ELSE IF gem.req[r].model < GemModels(gem.variant)
            THEN gem' = [gem EXCEPT !.req[r].pc = "provider", !.req[r].model = @ + 1]
       ELSE gem' = [gem EXCEPT !.req[r].pc = "fallback"]
    /\ UNCHANGED <<USE_OPENAI, handlerVars, client, net, geo, norm, runs, relay>>

\* aiOut was null: fallbackOverlay builds the sticker version.
GemFallbackDone(r, ok) ==
    /\ gem.req[r].pc = "fallback"
    /\ IF ok THEN gem' = [gem EXCEPT !.req[r].pc = "deliver",
                                     !.req[r].finalOut = "fallback",
                                     !.req[r].caption = "fallback"]
       ELSE GemFail(r, "compositing")
    /\ UNCHANGED <<USE_OPENAI, handlerVars, client, net, geo, norm, runs, relay>>

\* replyWithPhoto settled.
GemDeliverDone(r, ok) ==
    /\ gem.req[r].pc = "deliver"
    /\ IF ok THEN gem' = [gem EXCEPT !.req[r].pc = "done",
                                     !.req[r].delivered = gem.req[r].finalOut]
       ELSE GemFail(r, "transport")
    /\ UNCHANGED <<USE_OPENAI, handlerVars, client, net, geo, norm, runs, relay>>

\* The steps of request r that the provider drives.
GemProviderStep(r) ==
    \/ \E ok \in BOOLEAN : GemFetchSettled(r, ok)
    \/ \E body \in Bodies : GemBodyRead(r, body)

\* Every other step of request r: the transport, local image work, and any
\* timer the handler has set.
GemOwnStep(r) ==
    \/ GemReceive(r)
    \/ \E ok, hasFile \in BOOLEAN : GemChatActionDone(r, ok, hasFile)
    \/ \E ok \in BOOLEAN : GemGetFileUrlDone(r, ok)
    \/ \E ok \in BOOLEAN : GemDownloadDone(r, ok)
    \/ \E ok \in BOOLEAN : GemNormalizeDone(r, ok)
    \/ \E ok \in BOOLEAN : GemLogoDone(r, ok)
    \/ \E ok \in BOOLEAN : GemFallbackDone(r, ok)
    \/ \E ok \in BOOLEAN : GemDeliverDone(r, ok)

GemNext == \E r \in Requests : GemOwnStep(r) \/ GemProviderStep(r)

GemSpec == GemInit /\ [][GemNext]_vars

\* C12: in the whole-image handlers a provider failure (connection error,
\* body that is not JSON, undecodable image payload) never ends a request
\* with the error reply.
C12_ProviderFailureAbsorbed ==
    \A r \in Requests : gem.req[r].pc = "failed" => gem.req[r].cause # "provider"

\* C13: in the whole-image handlers a request suspended on a provider call
\* can always go on without the provider: a timer is pending that takes the
\* handler to the fallback.
C13_ProviderCallBounded ==
    \A r \in Requests :
        gem.req[r].pc \in {"provider", "providerBody"} => ENABLED GemOwnStep(r)

\* ======================================================================
\* The network awaits of the server.mjs handler, one by one: tgGetFileUrl
\* (fetchWithTimeout, then r.json()), fetchBuffer for the photo and for the
\* mascot (fetchWithTimeout, then r.arrayBuffer()), and the two provider
\* calls, each raced against sleep().  fetchWithTimeout arms a timer that
\* aborts the request and clears it in its finally block, which runs as soon
\* as fetch() has settled, that is when the response headers are in.
\* ======================================================================
NetOps == {"getFile", "download", "mascot"}

NetIdle == [op |-> "none", phase |-> "none", timer |-> "none"]

\* A fetchWithTimeout call has just been made for op.
NetFetching(op) == [op |-> op, phase |-> "headers", timer |-> "armed"]

\* A provider call has just been made and is raced against sleep().
NetRacing(op) == [op |-> op, phase |-> "race", timer |-> "armed"]

NetEnded(how) == [op |-> how, phase |-> "none", timer |-> "none"]

\* The await that follows op when op succeeded; the mascot is fetched only
\* when the cache is empty, the provider is called only when it is enabled.
NetAfter(op, cached, enabled) ==
    CASE op = "getFile"   -> NetFetching("download")
      [] op = "download" /\ ~cached -> NetFetching("mascot")
      [] op \in {"download", "mascot"} ->
            IF enabled THEN NetRacing("attempt1") ELSE NetEnded("done")
      [] op = "attempt1"  -> NetRacing("attempt2")
      [] OTHER            -> NetEnded("done")

NetInit ==
    /\ USE_OPENAI \in BOOLEAN
    /\ HandlerStart
    /\ net = [r \in Requests |-> NetIdle]
    /\ client = Null /\ gem = Null /\ geo = Null
    /\ norm = Null /\ runs = Null /\ relay = Null

\* The handler reaches tgGetFileUrl.
NetStart(r) ==
    /\ net[r].op \in {"none", "done", "failed"}
    /\ net' = [net EXCEPT ![r] = NetFetching("getFile")]
    /\ UNCHANGED <<USE_OPENAI, handlerVars, client, gem, geo, norm, runs, relay>>

\* fetch() settles before the timer: the finally block clears the timer.  A
\* rejection, or for fetchBuffer a status outside 2xx, throws; otherwise the
\* body is read next, with no timer left.
NetFetchSettled(r, res) ==
    /\ net[r].op \in NetOps
    /\ net[r].phase = "headers"
    /\ net' = [net EXCEPT ![r] =
                 IF res = "error" \/ (res = "notOk" /\ net[r].op # "getFile")
                 THEN NetEnded("failed")
                 ELSE [op |-> net[r].op, phase |-> "body", timer |-> "cleared"]]
    /\ UNCHANGED <<USE_OPENAI, handlerVars, client, gem, geo, norm, runs, relay>>

\* The armed timer of a pending await fires: controller.abort() rejects the
\* fetch, sleep() settles the race with null.
NetTimerFires(r) ==
    /\ net[r].timer = "armed"
    /\ net' = [net EXCEPT ![r] =
                 IF net[r].op \in NetOps THEN NetEnded("failed")
                 ELSE NetAfter(net[r].op, TRUE, USE_OPENAI)]
    /\ UNCHANGED <<USE_OPENAI, handlerVars, client, gem, geo, norm, runs, relay>>

\* r.json() / r.arrayBuffer() settles.
NetBodyRead(r, ok, cached) ==
    /\ net[r].phase = "body"
    /\ net' = [net EXCEPT ![r] =
                 IF ok THEN NetAfter(net[r].op, cached, USE_OPENAI) ELSE NetEnded("failed")]
    /\ UNCHANGED <<USE_OPENAI, handlerVars, client, gem, geo, norm, runs, relay>>

\* The provider call settles before its timer, with an image or with null.
NetProviderSettled(r, image) ==
    /\ net[r].phase = "race"
    /\ net' = [net EXCEPT ![r] =
                 IF image THEN NetEnded("done") ELSE NetAfter(net[r].op, TRUE, USE_OPENAI)]
    /\ UNCHANGED <<USE_OPENAI, handlerVars, client, gem, geo, norm, runs, relay>>

NetNext ==
    \E r \in Requests :
        \/ NetStart(r)
        \/ \E res \in {"ok", "notOk", "error"} : NetFetchSettled(r, res)
        \/ NetTimerFires(r)
        \/ \E ok, cached \in BOOLEAN : NetBodyRead(r, ok, cached)
        \/ \E image \in BOOLEAN : NetProviderSettled(r, image)

NetSpec == NetInit /\ [][NetNext]_vars

\* C14: whenever a request is suspended on the network (file lookup, photo
\* download, mascot fetch, provider call; headers or body), a timer is
\* pending whose firing ends that suspension.
C14_EverySuspensionTimed ==
    \A r \in Requests :
        net[r].phase \in {"headers", "body", "race"} => ENABLED NetTimerFires(r)

\* ======================================================================
\* Properties of the server.mjs handler, continued.
\* ======================================================================
\* C15: the time from the start of blend attempt 1 to the decision between
\* the generative image and the fallback never exceeds attempt-1 timeout +
\* backoff + attempt-2 timeout, whatever the provider does.
C15_DecisionWithinBudget ==
    \A r \in Requests :
        /\ clock[r] <= ATTEMPT1_TIMEOUT_MS + BACKOFF_MS + ATTEMPT2_TIMEOUT_MS
        /\ pc[r] = "attempt2" => clock[r] <= ATTEMPT1_TIMEOUT_MS + BACKOFF_MS

\* C15 witness: both timers won and the fallback was chosen exactly at the
\* end of the budget.
C15_Witness ==
    \E r \in Requests :
        /\ pc[r] = "fallback"
        /\ calls[r][1].st = "inflight"
        /\ calls[r][2].st = "inflight"
        /\ clock[r] = ATTEMPT1_TIMEOUT_MS + BACKOFF_MS + ATTEMPT2_TIMEOUT_MS

\* The places where the handler can be when a local, fatal failure throws:
\* Promise.all (normalization, mascot), placeMascotDraft, the draft upscale
\* and makeRectMask, the full-size placeMascotDraft.
FatalSteps == {"prepare", "draft", "mask", "fallback"}

\* The awaits on the messaging transport: the wait message, the edit of the
\* wait message, the file lookup, the download, replyWithPhoto.
TransportSteps == {"wait", "noedit", "getfile", "download", "deliver"}

\* This step sends a final image for request r.
SendsImage(r) ==
    /\ delivered'[r] # Null
    /\ delivered'[r] # delivered[r] \/ (pc[r] = "deliver" /\ pc'[r] = "done")

\* This step ends request r.
Ends(r) == pc[r] \notin Terminal /\ pc'[r] \in Terminal

\* C16 as claimed: no request sends a second image, a request that ends
\* with the error reply has sent none, and a request ends without an image
\* only on a fatal normalization, asset or compositing failure.
C16_OneImageUnlessFatal ==
    [][\A r \in Requests :
          /\ SendsImage(r) => delivered[r] = Null /\ pc[r] = "deliver"
          /\ (Ends(r) /\ pc'[r] = "failed") => delivered'[r] = Null
          /\ (Ends(r) /\ pc'[r] = "done") => delivered'[r] \in Images
          /\ (Ends(r) /\ pc'[r] # "done") => pc[r] \in FatalSteps]_vars

\* C16: no request sends a second image; a request that ends with the error
\* reply has sent none; a request that ends otherwise and had a file id has
\* sent exactly one; and a request ends without an image only on a fatal
\* normalization, asset or compositing failure, on a failed transport call,
\* or for a photo without a file id - never because of the provider.
C16_OneImagePerRequest ==
    [][\A r \in Requests :
          /\ SendsImage(r) => delivered[r] = Null /\ pc[r] = "deliver"
          /\ (Ends(r) /\ pc'[r] = "failed") => delivered'[r] = Null
          /\ (Ends(r) /\ pc'[r] = "done") => delivered'[r] \in Images
          /\ (Ends(r) /\ pc'[r] # "done") => pc[r] \in FatalSteps \cup TransportSteps]_vars

\* C16 witness: one request has ended with its one image, another has ended
\* with the error reply and no image.
C16_Witness ==
    \E r, q \in Requests :
        /\ pc[r] = "done" /\ delivered[r] \in Images
        /\ pc[q] = "failed" /\ "errorReply" \in did[q] /\ delivered[q] = Null

\* The caption passed to replyWithPhoto.
Caption(enabled) == IF enabled THEN "blended" ELSE "plain"

\* C17: the caption says "blended" exactly when the delivered image came
\* from the provider, and has the plain wording exactly when the delivered
\* image is the local composite.
C17_CaptionStatesProvenance ==
    \A r \in Requests :
        pc[r] = "done" =>
            (Caption(USE_OPENAI) = "blended" <=> delivered[r] \in {"ai1", "ai2"})

\* ======================================================================
\* The placement and mask arithmetic of server.mjs: placeMascotDraft on the
\* AI-sized canvas, the scaling of its rect to the output size, and
\* makeRectMask, on integers as sharp and Math.round produce them.
\* ======================================================================
\* OUTPUT_SIZE default.
SIZE == 1024

\* padPx passed to makeRectMask by the handler.
MASK_PAD == 18

\* Alpha of the mask background ("keep") and of the hole image ("editable").
KEEP_ALPHA == 1
HOLE_ALPHA == 0

\* AI_INPUT_SIZE values: placeMascotDraft's canvas (the full-size fallback
\* call is the case AI_IN_SIZE = SIZE).
CanvasSizes == {512, 640, 1024}

\* Mascot images as <<width, height>> proportions: square, wide, tall, and a
\* tall banner.
Mascots == {<<1, 1>>, <<2, 1>>, <<1, 2>>, <<1, 6>>}

\* Math.random() of the scale, in hundredths.
Randoms == {0, 50, 99}

AnchorNames == {"bottom-right", "bottom-left", "top-right", "top-left"}

\* |rotateDeg| in whole degrees; rotateDeg ranges over [-5, 5).
Degrees == {0, 2, 5}

\* Math.round(a / b) for b > 0.
Round(a, b) == (2 * a + b) \div (2 * b)

\* The least integer >= a / b for b > 0.
Ceil(a, b) == (a + b - 1) \div b

Max(a, b) == IF a >= b THEN a ELSE b

\* sin and cos of d degrees, times 10000.
Sin(d) == CASE d = 0 -> 0 [] d = 2 -> 349 [] d = 5 -> 872
Cos(d) == CASE d = 0 -> 10000 [] d = 2 -> 9994 [] d = 5 -> 9962

pickAnchor(W, H, stickerW, stickerH, pad, name) ==
    CASE name = "bottom-right" -> [left |-> W - stickerW - pad, top |-> H - stickerH - pad]
      [] name = "bottom-left"  -> [left |-> pad,                top |-> H - stickerH - pad]
      [] name = "top-right"    -> [left |-> W - stickerW - pad, top |-> pad]
      [] name = "top-left"     -> [left |-> pad,                top |-> pad]

\* Width and height of the image sharp returns for a w x h image rotated by d
\* degrees on a transparent background: the bounding box of the turned
\* rectangle.
RotatedW(w, h, d) == IF d = 0 THEN w ELSE Ceil(w * Cos(d) + h * Sin(d), 10000)
RotatedH(w, h, d) == IF d = 0 THEN h ELSE Ceil(w * Sin(d) + h * Cos(d), 10000)

\* The rect returned by placeMascotDraft: the mascot is resized to 20-25% of
\* the canvas width keeping its proportions, the anchor is computed from the
\* resized mascot, and w and h are those of the rotated mascot.
placeMascotDraft(size, mascot, rnd, name, d) ==
    LET W == size
        H == size
        stickerW == Round(W * (2000 + 5 * rnd), 10000)
        lw == stickerW
        lh == Max(1, Round(stickerW * mascot[2], mascot[1]))
        pad == Round(W * 35, 1000)
        anchor == pickAnchor(W, H, lw, lh, pad, name)
    IN  [left |-> anchor.left, top |-> anchor.top,
         w |-> RotatedW(lw, lh, d), h |-> RotatedH(lw, lh, d)]

\* rectFull: the rect scaled by SIZE / AI_IN_SIZE, each field rounded.
ScaledRect(rect, size) ==
    [left |-> Round(rect.left * SIZE, size), top |-> Round(rect.top * SIZE, size),
     w |-> Round(rect.w * SIZE, size), h |-> Round(rect.h * SIZE, size)]

\* makeRectMask: an opaque width x height image, and the hole image with its
\* composite offset.
makeRectMask(width, height, rect, padPx) ==
    [width |-> width, height |-> height,
     hole |-> [left |-> Max(0, rect.left - padPx), top |-> Max(0, rect.top - padPx),
               w |-> Max(1, rect.w + padPx * 2), h |-> Max(1, rect.h + padPx * 2)]]

\* Alpha of source-over compositing, sharp's default blend, for alphas 0 / 1.
Over(src, dst) == src + dst * (1 - src)

Inside(box, x, y) ==
    /\ box.left <= x /\ x < box.left + box.w
    /\ box.top <= y /\ y < box.top + box.h

\* Alpha of pixel (x, y) of the PNG makeRectMask returns: where the hole image
\* lies, the hole composited over the opaque background.
MaskAlpha(mask, x, y) ==
    IF Inside(mask.hole, x, y) THEN Over(HOLE_ALPHA, KEEP_ALPHA) ELSE KEEP_ALPHA

NoRect == [left |-> 0, top |-> 0, w |-> 0, h |-> 0]

GeoInit ==
    /\ USE_OPENAI = TRUE
    /\ HandlerStart
    /\ geo \in [size : CanvasSizes, mascot : Mascots, rnd : Randoms,
                anchor : AnchorNames, deg : Degrees, stage : {"input"},
                rect : {NoRect}, rectFull : {NoRect},
                mask : {[width |-> 0, height |-> 0, hole |-> NoRect]}]
    /\ client = Null /\ gem = Null /\ net = Null
    /\ norm = Null /\ runs = Null /\ relay = Null

\* placeMascotDraft(userNormAI, logoBuf, AI_IN_SIZE) returns.
PlaceDraft ==
    /\ geo.stage = "input"
    /\ geo' = [geo EXCEPT !.stage = "placed",
                          !.rect = placeMascotDraft(geo.size, geo.mascot, geo.rnd,
                                                    geo.anchor, geo.deg)]
    /\ UNCHANGED <<USE_OPENAI, handlerVars, client, gem, net, norm, runs, relay>>

\* The handler scales the rect to the output size.
ScaleRect ==
    /\ geo.stage = "placed"
    /\ geo' = [geo EXCEPT !.stage = "scaled", !.rectFull = ScaledRect(geo.rect, geo.size)]
    /\ UNCHANGED <<USE_OPENAI, handlerVars, client, gem, net, norm, runs, relay>>

\* makeRectMask(SIZE, SIZE, rectFull, 18) returns.
BuildMask ==
    /\ geo.stage = "scaled"
    /\ geo' = [geo EXCEPT !.stage = "masked",
                          !.mask = makeRectMask(SIZE, SIZE, geo.rectFull, MASK_PAD)]
    /\ UNCHANGED <<USE_OPENAI, handlerVars, client, gem, net, norm, runs, relay>>

GeoNext == PlaceDraft \/ ScaleRect \/ BuildMask

GeoSpec == GeoInit /\ [][GeoNext]_vars

\* C18: the rect returned by placeMascotDraft lies inside the canvas.
C18_RectInsideCanvas ==
    geo.stage # "input" =>
        /\ 0 <= geo.rect.left
        /\ 0 <= geo.rect.top
        /\ geo.rect.left + geo.rect.w <= geo.size
        /\ geo.rect.top + geo.rect.h <= geo.size

\* C19: the hole of the mask lies inside the canvas on all four sides.
C19_HoleInsideCanvas ==
    geo.stage = "masked" =>
        /\ 0 <= geo.mask.hole.left
        /\ 0 <= geo.mask.hole.top
        /\ geo.mask.hole.left + geo.mask.hole.w <= geo.mask.width
        /\ geo.mask.hole.top + geo.mask.hole.h <= geo.mask.height

\* The rect expanded by p on every side, cut to the canvas, as the interval
\* of its columns and of its rows.
Columns(rect, p, width) ==
    {x \in 0..(width - 1) : rect.left - p <= x /\ x < rect.left + rect.w + p}
Rows(rect, p, height) ==
    {y \in 0..(height - 1) : rect.top - p <= y /\ y < rect.top + rect.h + p}

\* C20: every pixel of the padded placement rect that lies on the canvas is
\* unlocked (transparent) in the mask.
C20_MascotRegionUnlocked ==
    geo.stage = "masked" =>
        \A x \in Columns(geo.rectFull, MASK_PAD, SIZE), y \in Rows(geo.rectFull, MASK_PAD, SIZE) :
            MaskAlpha(geo.mask, x, y) = HOLE_ALPHA

\* ======================================================================
\* normalizeToSquare of server.mjs and its two calls per request: the
\* photo's stored pixel size and EXIF orientation, the crop computed from
\* metadata(), and the crop applied by the pipeline rotate() -> extract() ->
\* resize().
\* ======================================================================
\* AI_INPUT_SIZE default.
AI_IN_SIZE == 640

\* Stored widths and heights of the photos tried.
Dims == {1, 2, 5, 8}

\* EXIF orientation tags; 5 to 8 turn the image by a quarter.
Orientations == 1..8

Photos == [w : Dims, h : Dims, orient : Orientations]

Min(a, b) == IF a <= b THEN a ELSE b

\* sharp's metadata(): the size as stored; the orientation is reported but
\* not applied, and the rotate() pending on the pipeline is not run.
Metadata(photo) == [width |-> photo.w, height |-> photo.h]

\* The image once rotate() has applied the EXIF orientation.
AutoOriented(photo) ==
    IF photo.orient >= 5 THEN [w |-> photo.h, h |-> photo.w]
    ELSE [w |-> photo.w, h |-> photo.h]

\* side, left and top as normalizeToSquare computes them.
CropOf(photo) ==
    LET w == Metadata(photo).width
        h == Metadata(photo).height
        side == Min(w, h)
    IN  [left |-> (w - side) \div 2, top |-> (h - side) \div 2, side |-> side]

\* extract() accepts the area only when it lies inside the image it gets.
ExtractFits(image, crop) ==
    /\ 0 <= crop.left /\ crop.left + crop.side <= image.w
    /\ 0 <= crop.top /\ crop.top + crop.side <= image.h

\* Mutant: no crop, and the resize is given the width only.
normalizeToSquare_WidthOnly(photo, size) ==
    [st |-> "ok", crop |-> CropOf(photo), w |-> size,
     h |-> Max(1, Round(size * AutoOriented(photo).h, AutoOriented(photo).w))]

\* normalizeToSquare(buf, size): the crop is taken from the auto-oriented
\* image (rotate() was called before extract()), then resize(size, size)
\* with the default fit gives exactly size x size.
normalizeToSquare(photo, size) ==
    IF ExtractFits(AutoOriented(photo), CropOf(photo))
    THEN [st |-> "ok", crop |-> CropOf(photo), w |-> size, h |-> size]
    ELSE [st |-> "thrown", crop |-> CropOf(photo), w |-> 0, h |-> 0]

NotNormalized == [st |-> "pending", crop |-> [left |-> 0, top |-> 0, side |-> 0],
                  w |-> 0, h |-> 0]

NormInit ==
    /\ USE_OPENAI = TRUE
    /\ HandlerStart
    /\ norm \in [photo : Photos, ai : {NotNormalized}, out : {NotNormalized}]
    /\ client = Null /\ gem = Null /\ net = Null /\ geo = Null
    /\ runs = Null /\ relay = Null

\* normalizeToSquare(original, AI_IN_SIZE) settles.
NormalizeAI ==
    /\ norm.ai.st = "pending"
    /\ norm' = [norm EXCEPT !.ai = normalizeToSquare(norm.photo, AI_IN_SIZE)]
    /\ UNCHANGED <<USE_OPENAI, handlerVars, client, gem, net, geo, runs, relay>>

\* normalizeToSquare(original, SIZE) settles.
NormalizeOut ==
    /\ norm.out.st = "pending"
    /\ norm' = [norm EXCEPT !.out = normalizeToSquare(norm.photo, SIZE)]
    /\ UNCHANGED <<USE_OPENAI, handlerVars, client, gem, net, geo, runs, relay>>

NormNext == NormalizeAI \/ NormalizeOut

NormSpec == NormInit /\ [][NormNext]_vars

\* C21: the crop computed by normalizeToSquare lies inside the
\* orientation-corrected image it is applied to, so the crop never fails.
C21_CropInsideImage ==
    \A res \in {norm.ai, norm.out} :
        res.st # "pending" =>
            /\ ExtractFits(AutoOriented(norm.photo), res.crop)
            /\ res.st = "ok"

\* C22: whenever normalizeToSquare returns, its result is exactly N x N: the
\* AI-sized image is AI_IN_SIZE square and the output image SIZE square.
C22_ExactlySquare ==
    /\ norm.ai.st = "ok" => norm.ai.w = AI_IN_SIZE /\ norm.ai.h = AI_IN_SIZE
    /\ norm.out.st = "ok" => norm.out.w = SIZE /\ norm.out.h = SIZE

\* C22 witness: a photo that is not square went through both calls.
C22_Witness ==
    /\ norm.photo.w # norm.photo.h
    /\ norm.ai.st = "ok"
    /\ norm.out.st = "ok"

\* ---------------------------------------------------------------------------
\* RunsSpec: two runs of placeMascotDraft on the same arguments.
\*
\* placeMascotDraft(userBuf, logoBuf, size) has no parameter for a source of
\* randomness: the scale, the anchor and the rotation each come from a call
\* of Math.random(), whose generator is seeded by the engine and cannot be
\* set by the program.  Every call is therefore a fresh draw.
\* ---------------------------------------------------------------------------

RunSizes == {AI_IN_SIZE, SIZE}

RunMascots == {<<1, 1>>, <<1, 2>>}

NotRun == [st |-> "pending", rnd |-> 0, anchor |-> "none", deg |-> 0, rect |-> NoRect]

\* One call: the three Math.random() draws and the rect they give.  The
\* draft composite is the base image with the mascot drawn at that rect, so
\* two drafts of the same photo are equal exactly when draws and rect are.
RunOnce(size, mascot, rnd, name, d) ==
    [st |-> "done", rnd |-> rnd, anchor |-> name, deg |-> d,
     rect |-> placeMascotDraft(size, mascot, rnd, name, d)]

RunsInit ==
    /\ USE_OPENAI = TRUE
    /\ HandlerStart
    /\ runs \in [size : RunSizes, mascot : RunMascots, a : {NotRun}, b : {NotRun}]
    /\ client = Null /\ gem = Null /\ net = Null
    /\ geo = Null /\ norm = Null /\ relay = Null

\* The first run returns.
RunFirst ==
    /\ runs.a.st = "pending"
    /\ \E rnd \in Randoms, name \in AnchorNames, d \in Degrees :
          runs' = [runs EXCEPT !.a = RunOnce(runs.size, runs.mascot, rnd, name, d)]
    /\ UNCHANGED <<USE_OPENAI, handlerVars, client, gem, net, geo, norm, relay>>

\* The second run, on the same arguments, returns.
RunSecond ==
    /\ runs.b.st = "pending"
    /\ \E rnd \in Randoms, name \in AnchorNames, d \in Degrees :
          runs' = [runs EXCEPT !.b = RunOnce(runs.size, runs.mascot, rnd, name, d)]
    /\ UNCHANGED <<USE_OPENAI, handlerVars, client, gem, net, geo, norm, relay>>

RunsNext == RunFirst \/ RunSecond

RunsSpec == RunsInit /\ [][RunsNext]_vars

\* C23: two runs of placeMascotDraft with identical inputs yield the same
\* anchor, scale, rotation and draft composite.
C23_RunsAgree ==
    (runs.a.st = "done" /\ runs.b.st = "done") => runs.a = runs.b

\* ======================================================================
\* The server.mjs handler again: the order of its phases, the image the
\* fallback delivers, and what a step of one request may change.
\* ======================================================================

\* The phase a handler position belongs to: receiving the photo (0),
\* normalizing (1), drafting with the mask (2), blend attempt 1 (3), the
\* backoff (4), blend attempt 2 (5), resolved (6), returned (7).
Phase(p) ==
    CASE p \in {"wait", "noedit", "getfile", "download"} -> 0
      [] p = "prepare"                -> 1
      [] p \in {"draft", "mask"}      -> 2
      [] p = "attempt1"               -> 3
      [] p = "backoff"                -> 4
      [] p = "attempt2"               -> 5
      [] p \in {"fallback", "deliver"} -> 6
      [] OTHER                        -> 7

\* Provider call k of request r is issued in this step.
Issued(r, k) == calls[r][k].st # "inflight" /\ calls'[r][k].st = "inflight"

\* C26: per request the phases occur only in the order normalize, draft,
\* blend attempt 1, optional blend attempt 2, resolved.  No provider call is
\* issued before the draft composite and the mask exist, each of the two
\* calls is issued at most once (so at most two per request), and attempt 2
\* is issued only after attempt 1 gave no image and the backoff has elapsed.
C26_PhasesInOrder ==
    [][\A r \in Requests :
         /\ Active(r) => Phase(pc'[r]) >= Phase(pc[r])
         /\ pc'[r] = "attempt1" /\ pc[r] # "attempt1" => pc[r] = "mask"
         /\ pc'[r] = "attempt2" /\ pc[r] # "attempt2" => pc[r] = "backoff"
         /\ \A k \in Attempts : Issued(r, k) => calls[r][k].st = "none"
         /\ Issued(r, 1) => pc[r] = "mask" /\ "draft" \in did[r]
         /\ Issued(r, 2) =>
               /\ pc[r] = "backoff"
               /\ NonSuccess(r, 1)
               /\ finalOut[r] = Null
               /\ clock'[r] >= clock[r] + BACKOFF_MS]_vars

\* C26 witness: a request went through both attempts, the first one timed
\* out, the second one answered with an image, and the request is resolved.
C26_Witness ==
    \E r \in Requests :
        /\ pc[r] = "deliver"
        /\ calls[r][1].st \in {"inflight", "late"}
        /\ WonWith(r, 2, "image")
        /\ finalOut[r] = "ai2"

\* The images a request builds on the way and never sends: the AI-sized
\* draft and its upscaled copy.
Drafts == {"draft", "draftFull"}

\* C27: when the fallback is chosen the handler holds no image until the
\* new run of placeMascotDraft on the output-size image has settled, the
\* image at the delivery step is the result of that run, and so is the
\* image sent; the AI-sized draft and its upscaled copy are never the
\* final image.
C27_FallbackIsFreshComposite ==
    \A r \in Requests :
        /\ finalOut[r] \notin Drafts
        /\ delivered[r] \notin Drafts
        /\ "fallback" \in did[r] =>
              /\ pc[r] = "fallback" => finalOut[r] = Null
              /\ pc[r] = "deliver" => finalOut[r] = "fallback"
              /\ pc[r] = "done" => delivered[r] = "fallback"

\* C27 witness: with the provider enabled both attempts ended without an
\* image and the fallback composite was sent.
C27_Witness ==
    \E r \in Requests :
        /\ USE_OPENAI
        /\ pc[r] = "done"
        /\ "fallback" \in did[r]
        /\ delivered[r] = "fallback"

\* Everything the handler keeps for request r: its position and its locals.
Locals(r) == <<pc[r], logoFetch[r], logoBuf[r], logoAfter[r], calls[r],
               clock[r], finalOut[r], delivered[r], did[r]>>

\* C28: a step of the handler changes the locals of one request at most,
\* and of the process-wide state only the mascot cache (the provider switch
\* is never written); the image a request takes as final is the answer of
\* one of its own provider calls or its own fallback composite, and the
\* image it sends is its own final image.
C28_RequestsIsolated ==
    [][/\ USE_OPENAI' = USE_OPENAI
       /\ Cardinality({r \in Requests : Locals(r)' # Locals(r)}) <= 1
       /\ \A r \in Requests :
             /\ finalOut'[r] # finalOut[r] /\ finalOut'[r] # Null =>
                   \/ finalOut'[r] = "fallback" /\ pc[r] = "fallback"
                   \/ \E k \in Attempts :
                         /\ finalOut'[r] = AiImage(k)
                         /\ calls'[r][k].st = "won"
                         /\ calls'[r][k].path = "image"
             /\ delivered'[r] # delivered[r] /\ delivered'[r] # Null =>
                   delivered'[r] = finalOut[r]]_vars

\* C28 witness: two requests are at the delivery step together, one with
\* the image of its first attempt, the other with its fallback composite.
C28_Witness ==
    \E r1, r2 \in Requests :
        /\ pc[r1] = "deliver" /\ finalOut[r1] = "ai1"
        /\ pc[r2] = "deliver" /\ finalOut[r2] = "fallback"

\* ======================================================================
\* The relay bots (part_000, part_002, part_004): a user sends a picture,
\* the bot forwards it to the admin chat as a job, the admin sends the
\* finished picture back and the bot delivers it to the user.
\*
\* part_000 and part_004 keep jobsByToken (token -> job) and
\* tokensByAdminMsgId (admin message id -> token), part_004 also the sticky
\* token lastTokenByAdmin; part_002 keeps jobs (admin message id -> job).
\* All three run on long polling (bot.start()), which hands the updates to
\* the middleware one after the other and awaits each.
\*
\* Two specifications share the handlers:
\*   RelaySpec  the bots as they are wired: for a picture the handler that
\*              was registered first with bot.on runs, and as no handler
\*              calls next() the one registered second never does;
\*   JobsSpec   the handlers as functions, each applied to the updates of
\*              the chat it is written for.
\* ======================================================================

RelayVariants == {"part_000", "part_002", "part_004"}

\* The admin chat (ADMIN_CHAT_ID) and the chats of two users.
AdminChat == "admin"
UserChats == {"u1", "u2"}
Chats == UserChats \cup {AdminChat}

\* mkToken() draws three random bytes: two of its values, so that a token
\* can be drawn twice.
Tokens == {"JOB-A", "JOB-B"}

\* Jobs created in a run, and with them the job messages in the admin chat.
MaxJobs == 2
JobIds == 1..MaxJobs
MsgIdOf(n) == "m" \o ToString(n)
MsgIds == {MsgIdOf(n) : n \in JobIds}

\* deliverToUser invocations that are suspended at one time, and the
\* pictures sent for one job, that a run follows.
MaxPending == 2
MaxSends == 2

\* The keys of the job map: tokens (part_000, part_004) or admin message
\* ids (part_002).
JobKeys == Tokens \cup MsgIds

NoJob == [chat |-> Null, id |-> 0]

\* A picture (or document) update: the chat it comes from, the message it
\* replies to, the token its caption holds, and whether it carries an image
\* (a photo, or a document with an image MIME type).
\* Its kind is "media"; a text message has the kind "text" and the command
\* /deliver the kind "deliver", with the token of the text as caption.
\* (No handler reads the reply or the caption of a user's picture: a user
\* sends a plain picture, or one that replies to the first job message and
\* names the first token.)
MediaUpdates ==
    {u \in [kind : {"media"}, chat : Chats, reply : MsgIds \cup {"other", Null},
            caption : Tokens \cup {Null}, image : BOOLEAN] :
        /\ ~u.image => u.reply = Null /\ u.caption = Null
        /\ u.chat \in UserChats =>
              \/ u.reply = Null /\ u.caption = Null
              \/ u.reply = MsgIdOf(1) /\ u.caption = "JOB-A"}

\* (Only part_002 looks at the message a text replies to, and only in the
\* admin chat; a user's text is followed when it names the first token.)
TextUpdates ==
    {u \in [kind : {"text", "deliver"}, chat : Chats, reply : MsgIds \cup {Null},
            caption : Tokens \cup {Null}, image : {FALSE}] :
        /\ u.reply # Null => u.kind = "text" /\ u.chat = AdminChat /\ u.caption = Null
        /\ u.chat \in UserChats => u.caption = "JOB-A"}

NoUpdate == [kind |-> Null, chat |-> Null, reply |-> Null, caption |-> Null, image |-> FALSE]

\* What the bot did with the last update: the handler that ran, how it
\* ended and, for a picture of the admin, the rule that named the job.
Handled(s, u, handler, out) ==
    [s EXCEPT !.last = [upd |-> u, ran |-> handler, out |-> out, rule |-> Null]]

isAdminChat(chat) == chat = AdminChat

\* An exception leaves a handler.  part_000 and part_004 install bot.catch,
\* which logs it; part_002 installs none, and grammY's default error
\* handler stops the polling.
Uncaught(s) == IF s.variant = "part_002" THEN [s EXCEPT !.running = FALSE] ELSE s

listOpenTokens(s) == {t \in Tokens : s.jobs[t] # NoJob}

\* The key mkToken() (or, in part_002, Telegram's message id) gives the
\* next job.
JobKey(s, t) == IF s.variant = "part_002" THEN MsgIdOf(s.created + 1) ELSE t

\* (relay.creator keeps, for every job ever created, the chat its picture
\* came from: the userChatId the job record was created with, which the maps
\* themselves forget when the job is deleted or its key is set again.)
\* handleIncomingFromUser (part_000, part_004) and the first photo handler
\* of part_002, up to their return.  The only accesses to the maps are the
\* two set() calls after the last await, so the handler is one step.  env
\* tells how the sends went: the "Got it" reply throws, the sendPhoto to
\* the admin chat throws, or both succeed.
handleIncomingFromUser(s, u, t, env) ==
    IF isAdminChat(u.chat) THEN Handled(s, u, "handleIncomingFromUser", "skipped")
    ELSE IF ~u.image THEN Handled(s, u, "handleIncomingFromUser", "askedForImage")
    ELSE IF env = "replyThrows"
    THEN Handled(Uncaught(s), u, "handleIncomingFromUser", "thrown")
    ELSE IF env = "sendThrows"
    THEN IF s.variant = "part_004"
         THEN Handled(s, u, "handleIncomingFromUser", "apologized")
         ELSE Handled(Uncaught(s), u, "handleIncomingFromUser", "thrown")
    ELSE Handled([s EXCEPT !.jobs[JobKey(s, t)] = [chat |-> u.chat, id |-> s.created + 1],
                           !.byMsg[MsgIdOf(s.created + 1)] =
                               IF s.variant = "part_002" THEN @ ELSE t,
                           !.creator[s.created + 1] = u.chat,
                           !.created = @ + 1],
                 u, "handleIncomingFromUser", "jobCreated")

\* deliverToUser up to its first await: the job is looked up and, when it
\* is there, sendPhoto to the job's chat is called.
deliverToUser(s, u, key, rule) ==
    IF s.jobs[key] = NoJob
    THEN [s EXCEPT !.last = [upd |-> u, ran |-> "handleAdminMedia",
                             out |-> "unknownToken", rule |-> rule]]
    ELSE [s EXCEPT !.pending = Append(@, [key |-> key, job |-> s.jobs[key],
                                          stage |-> "send"]),
                   !.last = [upd |-> u, ran |-> "handleAdminMedia",
                             out |-> "sending", rule |-> rule]]

\* Mutant: the caption token is looked at before the reply mapping.
handleAdminMedia_004_CaptionFirst(s, u) ==
    IF ~isAdminChat(u.chat) THEN Handled(s, u, "handleAdminMedia", "skipped")
    ELSE IF ~u.image THEN Handled(s, u, "handleAdminMedia", "ignored")
    ELSE IF u.caption # Null THEN deliverToUser(s, u, u.caption, "caption")
    ELSE IF u.reply \in MsgIds /\ s.byMsg[u.reply] # Null
    THEN deliverToUser(s, u, s.byMsg[u.reply], "reply")
    ELSE IF s.sticky # Null /\ s.jobs[s.sticky] # NoJob
    THEN deliverToUser([s EXCEPT !.sticky = Null], u, s.sticky, "sticky")
    ELSE IF Cardinality(listOpenTokens(s)) = 1
    THEN deliverToUser(s, u, CHOOSE t \in listOpenTokens(s) : TRUE, "single")
    ELSE Handled(s, u, "handleAdminMedia", "noMatch")

\* handleAdminMedia of part_004: reply mapping, caption token, sticky token,
\* single open job.
handleAdminMedia_004(s, u) ==
    IF ~isAdminChat(u.chat) THEN Handled(s, u, "handleAdminMedia", "skipped")
    ELSE IF ~u.image THEN Handled(s, u, "handleAdminMedia", "ignored")
    ELSE IF u.reply \in MsgIds /\ s.byMsg[u.reply] # Null
    THEN deliverToUser(s, u, s.byMsg[u.reply], "reply")
    ELSE IF u.caption # Null THEN deliverToUser(s, u, u.caption, "caption")
    ELSE IF s.sticky # Null /\ s.jobs[s.sticky] # NoJob
    THEN deliverToUser([s EXCEPT !.sticky = Null], u, s.sticky, "sticky")
    ELSE IF Cardinality(listOpenTokens(s)) = 1
    THEN deliverToUser(s, u, CHOOSE t \in listOpenTokens(s) : TRUE, "single")
    ELSE Handled(s, u, "handleAdminMedia", "noMatch")

\* handleAdminMedia of part_000: reply mapping, then caption token.
handleAdminMedia_000(s, u) ==
    IF ~isAdminChat(u.chat) THEN Handled(s, u, "handleAdminMedia", "skipped")
    ELSE IF ~u.image THEN Handled(s, u, "handleAdminMedia", "ignored")
    ELSE IF u.reply \in MsgIds /\ s.byMsg[u.reply] # Null
    THEN deliverToUser(s, u, s.byMsg[u.reply], "reply")
    ELSE IF u.caption # Null THEN deliverToUser(s, u, u.caption, "caption")
    ELSE Handled(s, u, "handleAdminMedia", "noMatch")

\* The second photo handler of part_002: the job of the message replied to.
handleAdminMedia_002(s, u) ==
    IF ~isAdminChat(u.chat) THEN Handled(s, u, "handleAdminMedia", "skipped")
    ELSE IF u.reply = Null THEN Handled(s, u, "handleAdminMedia", "ignored")
    ELSE IF u.reply \notin MsgIds \/ s.jobs[u.reply] = NoJob
    THEN Handled(s, u, "handleAdminMedia", "ignored")
    ELSE deliverToUser(s, u, u.reply, "reply")

handleAdminMedia(s, u) ==
    CASE s.variant = "part_004" -> handleAdminMedia_004(s, u)
      [] s.variant = "part_000" -> handleAdminMedia_000(s, u)
      [] OTHER                  -> handleAdminMedia_002(s, u)

\* Mutant: the text handlers do not test the chat.
handleText_AnyChat(s, u) ==
    IF s.variant = "part_004"
    THEN IF u.caption = Null
         THEN Handled(s, u, "handleText", IF u.kind = "deliver" THEN "usage" ELSE "ignored")
         ELSE IF s.jobs[u.caption] = NoJob
         THEN Handled(s, u, "handleText", "unknownToken")
         ELSE Handled([s EXCEPT !.sticky = u.caption], u, "handleText", "stickySet")
    ELSE IF s.variant = "part_000"
    THEN Handled(s, u, "handleText", IF u.caption = Null THEN "ignored" ELSE "gotToken")
    ELSE IF u.reply = Null \/ s.jobs[u.reply] = NoJob
    THEN Handled(s, u, "handleText", "ignored")
    ELSE Handled(s, u, "handleText", "relayed")

\* The text handlers.  part_004: /deliver <token> and a plain text holding
\* a token set the sticky token when the job is open.  part_000: the token
\* is acknowledged.  part_002: a text reply to a job message is passed on
\* to the user as a text message.
handleText(s, u) ==
    IF ~isAdminChat(u.chat) THEN Handled(s, u, "handleText", "skipped")
    ELSE IF s.variant = "part_004"
    THEN IF u.caption = Null
         THEN Handled(s, u, "handleText", IF u.kind = "deliver" THEN "usage" ELSE "ignored")
         ELSE IF s.jobs[u.caption] = NoJob
         THEN Handled(s, u, "handleText", "unknownToken")
         ELSE Handled([s EXCEPT !.sticky = u.caption], u, "handleText", "stickySet")
    ELSE IF s.variant = "part_000"
    THEN Handled(s, u, "handleText", IF u.caption = Null THEN "ignored" ELSE "gotToken")
    ELSE IF u.reply = Null \/ s.jobs[u.reply] = NoJob
    THEN Handled(s, u, "handleText", "ignored")
    ELSE Handled(s, u, "handleText", "relayed")

\* The picture handler registered first with bot.on: it runs on a picture
\* update and, as it never calls next(), the one registered after it does
\* not.  part_002 registers its handlers for photos only.
FirstRegistered(s, u, t, env) ==
    IF s.variant = "part_002" /\ ~u.image THEN Handled(s, u, Null, "unhandled")
    ELSE IF s.variant = "part_004" THEN handleAdminMedia(s, u)
    ELSE handleIncomingFromUser(s, u, t, env)

\* The picture handler written for the chat of the update.
HandlerOfChat(s, u, t, env) ==
    IF s.variant = "part_002" /\ ~u.image THEN Handled(s, u, Null, "unhandled")
    ELSE IF isAdminChat(u.chat) THEN handleAdminMedia(s, u)
    ELSE handleIncomingFromUser(s, u, t, env)

\* How the sends of handleIncomingFromUser can go.
UserEnvs == {"ok", "replyThrows", "sendThrows"}

RelayInit ==
    /\ USE_OPENAI = TRUE
    /\ HandlerStart
    /\ relay \in [variant : RelayVariants,
                  jobs : {[k \in JobKeys |-> NoJob]},
                  byMsg : {[m \in MsgIds |-> Null]},
                  sticky : {Null},
                  running : {TRUE},
                  created : {0},
                  creator : {[j \in JobIds |-> Null]},
                  pending : {<<>>},
                  sends : {[j \in JobIds |-> 0]},
                  ended : {Null},
                  last : {[upd |-> NoUpdate, ran |-> Null, out |-> Null, rule |-> Null]}]
    /\ client = Null /\ gem = Null /\ net = Null
    /\ geo = Null /\ norm = Null /\ runs = Null

\* Long polling takes the next update when the middleware of the one
\* before has settled.  part_000 and part_002 await the delivery inside the
\* handler; part_004 returns from the handler with the delivery running
\* ("return void deliverToUser(...)").
ReadyForUpdate ==
    /\ relay.running
    /\ relay.variant = "part_004" \/ relay.pending = <<>>
    /\ Len(relay.pending) < MaxPending

\* A picture update is handled: by the handler registered first (wired),
\* or by the handler written for its chat.  (The token drawn and the way
\* the sends go matter for a user's picture only.  The users and the token
\* values are interchangeable, so the first job is taken to be u1's and its
\* token to be JOB-A.)
MediaUpdate(wired, u, t, env) ==
    /\ ReadyForUpdate
    /\ IF u.chat \in UserChats /\ u.image
       THEN /\ env = "ok" => relay.created < MaxJobs
            /\ env = "ok" /\ relay.created = 0 => u.chat = "u1" /\ t = "JOB-A"
       ELSE t = "JOB-A" /\ env = "ok"
    /\ relay' = IF wired THEN FirstRegistered(relay, u, t, env)
                ELSE HandlerOfChat(relay, u, t, env)
    /\ UNCHANGED <<USE_OPENAI, handlerVars, client, gem, net, geo, norm, runs>>

\* A text message or a /deliver command is handled.
TextUpdate(u) ==
    /\ ReadyForUpdate
    /\ relay' = handleText(relay, u)
    /\ UNCHANGED <<USE_OPENAI, handlerVars, client, gem, net, geo, norm, runs>>

RelayNext ==
    \/ \E u \in MediaUpdates, t \in Tokens, env \in UserEnvs : MediaUpdate(TRUE, u, t, env)
    \/ \E u \in TextUpdates : TextUpdate(u)

RelaySpec == RelayInit /\ [][RelayNext]_vars

\* In the bots as wired no delivery is ever started.
RelayNeverDelivers == relay.pending = <<>>

\* The job whose job message is m is open.
JobOpenAt(s, m) ==
    IF s.variant = "part_002" THEN s.jobs[m] # NoJob
    ELSE s.byMsg[m] # Null /\ s.jobs[s.byMsg[m]] # NoJob

\* C24: in part_004 a photo or image document from a non-admin chat is
\* taken by handleIncomingFromUser, which creates a job (or, when a send
\* fails, tells the user so).
C24_UserPictureCreatesJob ==
    /\ relay.variant = "part_004"
    /\ relay.last.upd.kind = "media"
    /\ relay.last.upd.chat \in UserChats
    /\ relay.last.upd.image
    => /\ relay.last.ran = "handleIncomingFromUser"
       /\ relay.last.out \in {"jobCreated", "apologized", "thrown"}

\* C25: in part_000 and part_002, when the admin replies to the job message
\* of an open job with a picture, the delivery to the job's chat starts.
C25_AdminReplyDelivers ==
    /\ relay.variant \in {"part_000", "part_002"}
    /\ relay.last.upd.kind = "media"
    /\ relay.last.upd.chat = AdminChat
    /\ relay.last.upd.image
    /\ relay.last.upd.reply \in MsgIds
    /\ JobOpenAt(relay, relay.last.upd.reply)
    => /\ relay.last.ran = "handleAdminMedia"
       /\ relay.last.out = "sending"

\* ----------------------------------------------------------------------
\* JobsSpec: every picture goes to the handler written for its chat, and
\* the deliveries started by handleAdminMedia run to their end.
\* ----------------------------------------------------------------------

RemoveAt(seq, i) == SubSeq(seq, 1, i - 1) \o SubSeq(seq, i + 1, Len(seq))

\* sendPhoto(job.userChatId, ...) of a delivery settles.  When it throws,
\* part_000 and part_004 enter the catch block, which sends the admin the
\* failure message, and part_002 lets the exception go (which stops the
\* bot); the job stays in the map.
SendSettled(i, ok) ==
    /\ i \in 1..Len(relay.pending)
    /\ relay.pending[i].stage = "send"
    /\ LET d == relay.pending[i] IN
       IF ok
       THEN /\ relay.sends[d.job.id] < MaxSends
            /\ relay' = [relay EXCEPT !.sends[d.job.id] = @ + 1,
                                      !.pending[i].stage = "ack"]
       ELSE IF relay.variant = "part_002"
       THEN relay' = [Uncaught(relay) EXCEPT
                         !.pending = RemoveAt(@, i),
                         !.ended = "thrown"]
       ELSE relay' = [relay EXCEPT !.pending[i].stage = "sendFailed"]
    /\ UNCHANGED <<USE_OPENAI, handlerVars, client, gem, net, geo, norm, runs>>

\* The "Delivered" reply to the admin settles: after it the job is deleted
\* under the key the delivery was started with.  When the reply throws, the
\* same catch block (part_000, part_004) is entered and the job is not
\* deleted.
AckSettled(i, ok) ==
    /\ i \in 1..Len(relay.pending)
    /\ relay.pending[i].stage = "ack"
    /\ LET d == relay.pending[i] IN
       IF ok
       THEN relay' = [relay EXCEPT !.jobs[d.key] = NoJob,
                                   !.pending = RemoveAt(@, i),
                                   !.ended = "delivered"]
       ELSE IF relay.variant = "part_002"
       THEN relay' = [Uncaught(relay) EXCEPT
                         !.pending = RemoveAt(@, i),
                         !.ended = "thrown"]
       ELSE relay' = [relay EXCEPT !.pending[i].stage = "ackFailed"]
    /\ UNCHANGED <<USE_OPENAI, handlerVars, client, gem, net, geo, norm, runs>>

\* An unhandled promise rejection ends the process (the default of Node 15
\* and later): the maps, which live in memory, and the suspended deliveries
\* are gone with it.
ProcessEnds(s) ==
    [s EXCEPT !.running = FALSE,
              !.jobs = [k \in JobKeys |-> NoJob],
              !.byMsg = [m \in MsgIds |-> Null],
              !.sticky = Null,
              !.pending = <<>>]

\* The failure message of the catch block settles.  When this reply throws
\* too, deliverToUser rejects: part_000 awaits it, so the exception reaches
\* bot.catch and is logged; part_004 has dropped the promise ("return void
\* deliverToUser(...)"), so the rejection is unhandled, which ends the
\* process or only prints a warning, as the Node version has it.
FailureTold(i, ok, ends) ==
    /\ i \in 1..Len(relay.pending)
    /\ relay.pending[i].stage \in {"sendFailed", "ackFailed"}
    /\ ~ends \/ (~ok /\ relay.variant = "part_004")
    /\ LET d == relay.pending[i] IN
       IF ok
       THEN relay' = [relay EXCEPT !.pending = RemoveAt(@, i),
                                   !.ended = "failureTold"]
       ELSE IF ends
       THEN relay' = [ProcessEnds(relay) EXCEPT
                         !.ended = "processEnded"]
       ELSE relay' = [relay EXCEPT !.pending = RemoveAt(@, i),
                                   !.ended = "failureLost"]
    /\ UNCHANGED <<USE_OPENAI, handlerVars, client, gem, net, geo, norm, runs>>

JobsNext ==
    \/ \E u \in MediaUpdates, t \in Tokens, env \in UserEnvs : MediaUpdate(FALSE, u, t, env)
    \/ \E u \in TextUpdates : TextUpdate(u)
    \/ \E i \in 1..MaxPending, ok \in BOOLEAN : SendSettled(i, ok)
    \/ \E i \in 1..MaxPending, ok \in BOOLEAN : AckSettled(i, ok)
    \/ \E i \in 1..MaxPending, ok \in BOOLEAN, ends \in BOOLEAN : FailureTold(i, ok, ends)

JobsSpec == RelayInit /\ [][JobsNext]_vars

\* This step is handleAdminMedia of part_004 taking a picture of the admin.
AdminPictureStep ==
    /\ relay.variant = "part_004"
    /\ relay'.last.ran = "handleAdminMedia"
    /\ relay'.last.upd.chat = AdminChat
    /\ relay'.last.upd.image
    /\ relay'.last # relay.last \/ Len(relay'.pending) > Len(relay.pending)

\* What each rule finds, in the state the picture arrives in.
ReplyFinds(u)   == u.reply \in MsgIds /\ relay.byMsg[u.reply] # Null
CaptionFinds(u) == u.caption # Null
StickyFinds     == relay.sticky # Null /\ relay.jobs[relay.sticky] # NoJob
SingleFinds     == Cardinality(listOpenTokens(relay)) = 1

\* C29: handleAdminMedia of part_004 names the job by the first of reply
\* mapping, caption token, sticky token and single open job that finds a
\* token; a later rule decides only when every earlier one found none, and
\* the sticky token is used up only when it is the rule that decides.
C29_FixedPrecedence ==
    [][AdminPictureStep =>
         LET u == relay'.last.upd
             rule == relay'.last.rule
         IN  /\ rule = "reply" <=> ReplyFinds(u)
             /\ rule = "caption" <=> ~ReplyFinds(u) /\ CaptionFinds(u)
             /\ rule = "sticky" <=> ~ReplyFinds(u) /\ ~CaptionFinds(u) /\ StickyFinds
             /\ rule = "single" <=>
                   ~ReplyFinds(u) /\ ~CaptionFinds(u) /\ ~StickyFinds /\ SingleFinds
             /\ relay'.sticky = IF rule = "sticky" THEN Null ELSE relay.sticky
             /\ Len(relay'.pending) > Len(relay.pending) =>
                   relay'.pending[Len(relay'.pending)].key =
                       CASE rule = "reply"   -> relay.byMsg[u.reply]
                         [] rule = "caption" -> u.caption
                         [] rule = "sticky"  -> relay.sticky
                         [] OTHER            -> CHOOSE t \in listOpenTokens(relay) : TRUE]_vars

\* C29 witness: the admin replied to a job message with a picture whose
\* caption names another open job while a sticky token was set, and the
\* delivery was started for the job of the message replied to.
C29_Witness ==
    /\ relay.variant = "part_004"
    /\ relay.last.rule = "reply"
    /\ relay.last.out = "sending"
    /\ relay.last.upd.caption # Null
    /\ relay.sticky # Null
    /\ relay.pending # <<>>
    /\ relay.pending[Len(relay.pending)].key = relay.byMsg[relay.last.upd.reply]
    /\ relay.pending[Len(relay.pending)].key # relay.last.upd.caption
    /\ relay.jobs[relay.last.upd.caption] # NoJob

JobOfMsg(m) == CHOOSE n \in JobIds : MsgIdOf(n) = m

\* This step starts a delivery (deliverToUser found the job and called
\* sendPhoto); the delivery it starts.
DeliveryStarts == Len(relay'.pending) > Len(relay.pending)
Started == relay'.pending[Len(relay'.pending)]

C32_CreationKeepsOpenJobs ==
    [][/\ relay.variant \in {"part_000", "part_004"}
       /\ relay'.created > relay.created
       => \A t \in Tokens : relay.jobs[t] # NoJob => relay'.jobs[t] = relay.jobs[t]]_vars

\* The delivery at place i of the suspended ones ends in this step, by
\* returning or with the process.
DeliveryEnds(i) ==
    /\ i \in 1..Len(relay.pending)
    /\ Len(relay'.pending) < Len(relay.pending)
    /\ relay'.pending \in {RemoveAt(relay.pending, i), <<>>}

FailureToldKeepsJob ==
    [][\A i \in 1..MaxPending :
         /\ i <= Len(relay.pending)
         /\ relay.pending[i].stage = "sendFailed"
         /\ DeliveryEnds(i)
         /\ relay'.ended = "failureTold"
         => relay'.jobs = relay.jobs /\ relay'.running]_vars

\* This step handles an update (the one relay'.last tells of).
UpdateStep ==
    \/ relay'.last # relay.last
    \/ DeliveryStarts
    \/ relay'.created > relay.created

\* C34: in all three bots a delivery is started, a text is passed on to a
\* user and the sticky token is changed only by an update from the admin
\* chat; an update from a user's chat leaves the deliveries and the pictures
\* sent as they are, and a job is created only by an update from a user's
\* chat, never by a picture of the admin chat.
C34_OnlyAdminDelivers ==
    [][UpdateStep =>
         LET c == relay'.last.upd.chat IN
         /\ DeliveryStarts => c = AdminChat
         /\ relay'.last.out = "relayed" => c = AdminChat
         /\ relay'.sticky # relay.sticky => c = AdminChat
         /\ relay'.created > relay.created => c \in UserChats
         /\ c \in UserChats =>
               /\ relay'.pending = relay.pending
               /\ relay'.sends = relay.sends
               /\ relay'.sticky = relay.sticky]_vars

\* C34 witness: in part_004 a user sent /deliver with the token of an open
\* job; the command was skipped and no sticky token is set.
C34_Witness ==
    /\ relay.variant = "part_004"
    /\ relay.last.upd.chat \in UserChats
    /\ relay.last.upd.kind = "deliver"
    /\ relay.last.upd.caption = "JOB-A"
    /\ relay.jobs["JOB-A"] # NoJob
    /\ relay.last.out = "skipped"
    /\ relay.sticky = Null

\* ======================================================================
\* The server.mjs handler once more: the provider switched off, and the
\* mascot cache after a failed read.
\* ======================================================================

\* C35: with USE_OPENAI false a request issues no provider call, never
\* waits on an attempt window or the backoff (its clock stays at 0, it is
\* never at the mask, an attempt or the backoff), and the image it holds at
\* the delivery step and sends is the local composite built at the output
\* size.
C35_DisabledIsLocalOnly ==
    ~USE_OPENAI =>
        \A r \in Requests :
            /\ \A k \in Attempts : calls[r][k].st = "none"
            /\ clock[r] = 0
            /\ pc[r] \notin {"mask", "attempt1", "backoff", "attempt2"}
            /\ pc[r] = "deliver" => finalOut[r] = "fallback"
            /\ delivered[r] \in {Null, "fallback"}

\* C35 witness: with the provider switched off a request has sent its
\* local composite.
C35_Witness ==
    /\ ~USE_OPENAI
    /\ \E r \in Requests :
          /\ pc[r] = "done"
          /\ delivered[r] = "fallback"
          /\ "draft" \in did[r]

\* C36: the cache only ever holds bytes a completed read returned: it is
\* assigned only in the step in which a read settles with bytes, a read
\* that fails leaves it as it was, and a call of getLogoBuffer that finds
\* it empty reads the source (again).
C36_FailureLeavesCacheEmpty ==
    /\ [](LOGO_BUF_CACHE \in MascotBytes \cup {Null})
    /\ [][\A r \in Requests :
            /\ "mascotError" \in did'[r] /\ "mascotError" \notin did[r]
               => LOGO_BUF_CACHE' = LOGO_BUF_CACHE
            /\ pc[r] = "download" /\ pc'[r] = "prepare" /\ LOGO_BUF_CACHE = Null
               => logoFetch'[r] = "inflight"
            /\ pc[r] = "download" /\ pc'[r] = "prepare" /\ LOGO_BUF_CACHE # Null
               => logoFetch'[r] = logoFetch[r] /\ logoBuf'[r] = LOGO_BUF_CACHE]_vars
    /\ [][LOGO_BUF_CACHE' # LOGO_BUF_CACHE =>
            /\ LOGO_BUF_CACHE' \in MascotBytes
            /\ \E r \in Requests : logoFetch[r] = "inflight" /\ logoFetch'[r] = "none"]_vars

\* C36 witness: one request's mascot load has failed, the cache is still
\* empty and has never been written, and another request that found it
\* empty is reading the source.
C36_Witness ==
    \E r1, r2 \in Requests :
        /\ pc[r1] = "failed"
        /\ "mascotError" \in did[r1]
        /\ LOGO_BUF_CACHE = Null
        /\ cacheWrites = 0
        /\ pc[r2] = "prepare"
        /\ logoFetch[r2] = "inflight"

====
